---- MODULE Spec2Model ----
(***************************************************************************)
(* Dialogue orchestration of the WhatsApp e-commerce chatbot:              *)
(*   chatbot/llm.py      detect_language, extract_answer                   *)
(*   chatbot/handlers.py process_input and the intent handlers             *)
(*   chatbot/graph.py    the LangGraph workflow (routing)                  *)
(*   chatbot/api.py      api_call (user store, catalog, orders)            *)
(*   chatbot/webhook.py  whatsapp_webhook and conversation_states          *)
(*   logic/sql.py        convert_nl_to_sql, execute_sql                    *)
(*   api/converty.py     the token refresh of the commerce calls           *)
(*                                                                         *)
(* A Python str is a sequence of tokens (words, separators, tags), so that *)
(* split, strip and lower are computed and not assumed.  A Python value    *)
(* whose type varies (str, list, None, or a raised exception) is a record  *)
(* [ty, val, elems]: val holds the tokens of a str, elems those of a list. *)
(***************************************************************************)
EXTENDS Integers, Sequences, FiniteSets, TLC

VARIABLES
    conversation_states, \* webhook.py:37, counterparty -> AgentState
    users,               \* chatbot.users table: phone_number -> [name, address]
    orders,              \* orders created at the commerce platform, in order
    issues,              \* issue claims saved in the chatbot.claims table, in order
    pc,                  \* node of the workflow the in-flight turn is at
    cur,                 \* the in-flight request: [phone, name, body]
    st,                  \* the AgentState the workflow is working on
    turn,                \* what the in-flight (or last) turn has done so far
    sent,                \* replies handed to the messaging channel, per turn
    nturns,              \* number of inbound messages accepted so far
    p_response,          \* the response argument of an extract_answer call on its own
    p_key,               \* the key argument of that call
    p_result,            \* the result of that call
    sql_state,           \* logic: the AgentState the SQL nodes work on
    sql_pc,              \* the node of the generate/execute loop that runs next
    sql_hist,            \* what the loop has done: LLM calls, executions, its end
    http_pc,             \* api/converty.py: the position inside a commerce call
    http_call,           \* the function called and its token and request events
    http_n,              \* number of commerce calls started
    requests,            \* webhook.py: the requests in flight, each a coroutine
    loop,                \* the request whose coroutine holds the event loop, or 0
    writes               \* per counterparty, how often its entry has been stored

dialogue_vars == <<conversation_states, users, orders, issues, pc, cur, st, turn, sent, nturns>>
parse_vars == <<p_response, p_key, p_result>>
sql_vars == <<sql_state, sql_pc, sql_hist>>
http_vars == <<http_pc, http_call, http_n>>
conc_vars == <<requests, loop, writes>>
vars == <<conversation_states, users, orders, issues, pc, cur, st, turn, sent, nturns,
          p_response, p_key, p_result, sql_state, sql_pc, sql_hist,
          http_pc, http_call, http_n, requests, loop, writes>>

---------------------------------------------------------------------------
(* Python values *)

PyStr(s) == [ty |-> "str", val |-> s, elems |-> <<>>]
PyList(l) == [ty |-> "list", val |-> <<>>, elems |-> l]
PyNone == [ty |-> "None", val |-> <<>>, elems |-> <<>>]
PyRaise == [ty |-> "raise", val |-> <<>>, elems |-> <<>>]

\* bool(v) of a str, list or None
Truthy(v) == (v.ty = "str" /\ v.val # <<>>) \/ (v.ty = "list" /\ v.elems # <<>>)

---------------------------------------------------------------------------
(* str methods on token sequences *)

Whitespace == {" ", "\n"}

RECURSIVE lstrip(_)
lstrip(s) == IF s # <<>> /\ Head(s) \in Whitespace THEN lstrip(Tail(s)) ELSE s

RECURSIVE rstrip(_)
rstrip(s) ==
    IF s # <<>> /\ s[Len(s)] \in Whitespace THEN rstrip(SubSeq(s, 1, Len(s) - 1)) ELSE s

strip(s) == rstrip(lstrip(s))

\* str.lower() of one token: the tokens of the model that carry upper case
lower_token(t) ==
    CASE t = "Lamp" -> "lamp"
      [] t = "LAMP" -> "lamp"
      [] t = "Press" -> "press"
      [] t = "Ghost" -> "ghost"
      [] t = "Greeting" -> "greeting"
      [] t = "New_Order" -> "new_order"
      [] t = "Other" -> "other"
      [] t = "French" -> "french"
      [] t = "Bonjour" -> "bonjour"
      [] t = "Hello" -> "hello"
      [] t = "None" -> "none"
      [] OTHER -> t

lower(s) == [i \in 1..Len(s) |-> lower_token(s[i])]

\* index of the first token of s that is in T, 0 when there is none
find(s, T) ==
    IF \E i \in 1..Len(s) : s[i] \in T
    THEN CHOOSE i \in 1..Len(s) : s[i] \in T /\ \A j \in 1..(i - 1) : s[j] \notin T
    ELSE 0

\* index of the last token of s that is in T, 0 when there is none
rfind(s, T) ==
    IF \E i \in 1..Len(s) : s[i] \in T
    THEN CHOOSE i \in 1..Len(s) : s[i] \in T /\ \A j \in (i + 1)..Len(s) : s[j] \notin T
    ELSE 0

\* s.split(sep) for a one-token separator
RECURSIVE split(_, _)
split(s, sep) ==
    LET i == find(s, {sep})
    IN IF i = 0 THEN <<s>>
       ELSE <<SubSeq(s, 1, i - 1)>> \o split(SubSeq(s, i + 1, Len(s)), sep)

\* [f(x) for x in l if p(x)] with f = strip and p = bool(strip(x))
RECURSIVE stripped_nonempty(_)
stripped_nonempty(l) ==
    IF l = <<>> THEN <<>>
    ELSE (IF strip(Head(l)) # <<>> THEN <<strip(Head(l))>> ELSE <<>>)
         \o stripped_nonempty(Tail(l))

---------------------------------------------------------------------------
(* chatbot/llm.py: extract_answer *)

KeyIntent == "**Intent:**"
KeyItems == "**Items:**"
KeyIssueProduct == "**IssueProduct:**"
KeyAddress == "**Address:**"
KeyProducts == "**Products:**"
KeyCategory == "**Category:**"
KeyLanguage == "**Language:**"
KeyResponse == "**Response:**"

Keys == {KeyIntent, KeyItems, KeyIssueProduct, KeyAddress, KeyProducts,
         KeyCategory, KeyLanguage, KeyResponse}

\* tokens that contain the two characters "**"
StarTokens == Keys \cup {"**"}

\* the fence tokens: three backquotes followed by json, and three backquotes
FenceOpen == "~~~json"
FenceClose == "~~~"

\* the valid_intents of extract_answer (llm.py:115-124 and 145-154)
extract_valid_intents ==
    {"new_order", "retrieve_order", "list_products", "greeting", "address",
     "update_address", "report_issue", "none"}

valid_category ==
    {"defective", "wrong_item", "missing_item", "delivery", "quality", "quantity",
     "packaging", "other"}

valid_languages == {"english", "french", "arabic"}

\* "none" if key != "**Products:**" else []
extract_default(key) == IF key # KeyProducts THEN PyStr(<<"none">>) ELSE PyList(<<>>)

\* re.search of the fenced json block (llm.py:110, re.DOTALL): the text between
\* the first opening fence and the next run of three backquotes (which may open
\* another fence), without the white space around it
json_match(text) ==
    LET i == find(text, {FenceOpen})
        rest == SubSeq(text, i + 1, Len(text))
        j == find(rest, {FenceClose, FenceOpen})
    IN IF i = 0 \/ j = 0 THEN [found |-> FALSE, body |-> <<>>]
       ELSE [found |-> TRUE, body |-> strip(SubSeq(rest, 1, j - 1))]

\* The JSON documents of the model, each one token, and what json.loads gives
JsonOrderTwo == "{\"intent\": \"new_order\", \"**Items:**\": \"Lamp,Press\"}"
JsonOrderOne == "{\"intent\": \"new_order\", \"**Items:**\": \"Lamp\"}"
JsonIntentAddress == "{\"intent\": \"address\"}"
JsonIntentUnknown == "{\"intent\": \"chitchat\"}"
JsonRawIntent == "{\"**Intent:**\": \"chitchat\"}"
JsonProductsList == "{\"products\": [\"Lamp\", \"Press\"]}"
JsonProductsStr == "{\"products\": \"Lamp, Press\"}"
JsonResponse == "{\"**Response:**\": \"Hello\"}"
JsonArray == "[1]"

JsonDocuments ==
    {JsonOrderTwo, JsonOrderOne, JsonIntentAddress, JsonIntentUnknown, JsonRawIntent,
     JsonProductsList, JsonProductsStr, JsonResponse, JsonArray}

json_value(tok) ==
    CASE tok = JsonOrderTwo ->
           [kind |-> "dict",
            d |-> ("intent" :> PyStr(<<"new_order">>))
                  @@ (KeyItems :> PyStr(<<"Lamp", ",", "Press">>))]
      [] tok = JsonOrderOne ->
           [kind |-> "dict",
            d |-> ("intent" :> PyStr(<<"new_order">>)) @@ (KeyItems :> PyStr(<<"Lamp">>))]
      [] tok = JsonIntentAddress ->
           [kind |-> "dict", d |-> ("intent" :> PyStr(<<"address">>))]
      [] tok = JsonIntentUnknown ->
           [kind |-> "dict", d |-> ("intent" :> PyStr(<<"chitchat">>))]
      [] tok = JsonRawIntent ->
           [kind |-> "dict", d |-> (KeyIntent :> PyStr(<<"chitchat">>))]
      [] tok = JsonProductsList ->
           [kind |-> "dict", d |-> ("products" :> PyList(<< <<"Lamp">>, <<"Press">> >>))]
      [] tok = JsonProductsStr ->
           [kind |-> "dict", d |-> ("products" :> PyStr(<<"Lamp", ",", " ", "Press">>))]
      [] tok = JsonResponse ->
           [kind |-> "dict", d |-> (KeyResponse :> PyStr(<<"Hello">>))]
      [] tok = JsonArray ->
           [kind |-> "list", d |-> <<>>]

\* json.loads(body): a document of the model, or JSONDecodeError
json_loads(body) ==
    IF Len(body) = 1 /\ body[1] \in JsonDocuments
    THEN [ok |-> TRUE, v |-> json_value(body[1])]
    ELSE [ok |-> FALSE, v |-> [kind |-> "error", d |-> <<>>]]

\* str(v)
py_str(v) ==
    CASE v.ty = "str" -> v.val
      [] v.ty = "list" -> IF v.elems = <<>> THEN <<"[", "]">> ELSE <<"[...]">>
      [] OTHER -> <<"None">>

\* llm.py:111-137, the fenced-block interpretation
extract_json(body, key) ==
    LET j == json_loads(body)
        has(k) == j.v.kind = "dict" /\ k \in DOMAIN j.v.d
    IN IF ~j.ok THEN extract_default(key)
       ELSE IF key = KeyIntent /\ has("intent")
       THEN LET intent == j.v.d["intent"]
            IN IF intent.ty = "str" /\ Len(intent.val) = 1
                  /\ intent.val[1] \in extract_valid_intents
               THEN intent ELSE PyStr(<<"none">>)
       ELSE IF key = KeyProducts /\ has("products")
       THEN LET products == j.v.d["products"]
            IN IF products.ty = "list" THEN products
               ELSE IF products.ty = "str" THEN PyList(split(products.val, ","))
               ELSE PyList(<<>>)
       ELSE IF j.v.kind # "dict" THEN PyRaise  \* AttributeError: no .get
       ELSE PyStr(py_str(IF key \in DOMAIN j.v.d THEN j.v.d[key] ELSE extract_default(key)))

\* llm.py:139-191, the line-tag interpretation; the function ends after the
\* warning of line 189 without a return statement, so it returns None
extract_line(text, key) ==
    IF find(text, {key}) = 0 THEN PyNone
    ELSE
    LET last == SubSeq(text, rfind(text, {key}) + 1, Len(text))
        stop == find(last, StarTokens)
        value == strip(IF stop = 0 THEN last ELSE SubSeq(last, 1, stop - 1))
        one(v, S) == Len(v) = 1 /\ v[1] \in S
    IN CASE key = KeyIntent ->
              IF one(lower(value), extract_valid_intents)
              THEN PyStr(lower(value)) ELSE PyStr(<<"none">>)
         [] key \in {KeyProducts, KeyIssueProduct} ->
              IF value # <<>> THEN PyList(stripped_nonempty(split(value, ",")))
              ELSE PyList(<<>>)
         [] key = KeyCategory ->
              IF one(value, valid_category) THEN PyStr(value) ELSE PyStr(<<"none">>)
         [] key = KeyLanguage ->
              IF one(lower(value), valid_languages)
              THEN PyStr(lower(value)) ELSE PyStr(<<"none">>)
         [] key \in {KeyResponse, KeyAddress} -> PyStr(value)
         [] OTHER -> PyNone

extract_answer(response, key) ==
    IF response.ty # "str" THEN extract_default(key)
    ELSE LET m == json_match(response.val)
         IN IF m.found THEN extract_json(m.body, key)
            ELSE extract_line(response.val, key)

---------------------------------------------------------------------------
(* The inputs of the model *)

MaxTurns == 2

\* the counterparty (Twilio's From field)
PhoneTN == <<"whatsapp:+216", "20000001">>
Phones == {PhoneTN}

ProfileNames == {<<"Ali">>}

\* message bodies: blank, a greeting of llm.py's GREETINGS, and a text that is
\* no greeting (an order, an address, ...)
Bodies == {<<" ">>, <<"Bonjour">>, <<"12", " ", "Main", " ", "Street">>}

\* the catalog the commerce platform returns: nothing (also on failure) or two products
Catalog == << [name |-> <<"Lamp">>, price |-> 23], [name |-> <<"Press">>, price |-> 38] >>
Catalogs == {<<>>, Catalog}

\* the prompt format of process_input (handlers.py:56-60) filled in
classification(intent, items, issue) ==
    <<KeyIntent, " ">> \o intent \o <<"\n", KeyItems, " ">> \o items
    \o <<"\n", KeyIssueProduct, " ">> \o issue \o <<"\n", KeyAddress, " ", "none">>

\* what the language model may answer to the classification prompt
ClassificationTexts ==
    {classification(<<"greeting">>, <<"none">>, <<"none">>),
     classification(<<"list_products">>, <<"none">>, <<"none">>),
     classification(<<"retrieve_order">>, <<"none">>, <<"none">>),
     classification(<<"report_issue">>, <<"none">>, <<"Lamp">>),
     classification(<<"report_issue">>, <<"none">>, <<"none">>),
     classification(<<"new_order">>, <<"Lamp", ",", "Press">>, <<"none">>),
     <<"I", " ", "cannot", " ", "help">>,
     <<FenceOpen, "\n", JsonOrderTwo, "\n", FenceClose>>,
     <<KeyIntent, " ", "address", "\n", KeyItems, " ", "none", "\n",
       KeyIssueProduct, " ", "none", "\n", KeyAddress, " ", "Main">>,
     <<FenceOpen, "\n", JsonIntentUnknown, "\n", FenceClose>>}

\* what it may answer to the product-matching prompt
MatchTexts ==
    {<<KeyProducts, " ", "Lamp", ",", "Press">>,
     <<KeyProducts, " ", "Lamp", ",", "none">>,
     <<KeyProducts, " ", "Ghost", ",", "Ghost">>,
     <<"Lamp", " ", "and", " ", "Press">>,
     <<KeyProducts, " ", "Lamp", ",", "Press", ",", "Ghost">>,
     <<KeyProducts, " ", "Press">>,
     <<KeyProducts, " ", "LAMP", ",", "Ghost">>,
     <<FenceOpen, "\n", JsonResponse, "\n", FenceClose>>}

\* what it may answer to a prompt that asks for a reply to the user
ReplyTexts ==
    {<<KeyResponse, " ", "generated reply">>,
     <<"generated reply">>}

\* what it may answer to the categorisation prompt
CategoryTexts ==
    {<<KeyCategory, " ", "defective">>,
     <<KeyCategory, " ", "broken">>}

\* an LLM call returns a text or raises
Llm(texts) == {PyRaise} \cup {PyStr(t) : t \in texts}

\* extract_answer(llm.invoke(...).content, key), or the exception of the call
answer(llm, key) == IF llm.ty = "raise" THEN PyRaise ELSE extract_answer(llm, key)

\* handlers.py:70-81, the four values process_input extracts from one completion
classify(llm) ==
    [ty |-> llm.ty,
     intent |-> answer(llm, KeyIntent),
     items |-> answer(llm, KeyItems),
     issue_product |-> answer(llm, KeyIssueProduct),
     address |-> answer(llm, KeyAddress)]

\* what the handlers extract from the completions above
Classifications == {classify(llm) : llm \in Llm(ClassificationTexts)}
Matches == {answer(llm, KeyProducts) : llm \in Llm(MatchTexts)}
Replies == {answer(llm, KeyResponse) : llm \in Llm(ReplyTexts)}
Categories == {answer(llm, KeyCategory) : llm \in Llm(CategoryTexts)}

---------------------------------------------------------------------------
(* chatbot/llm.py: detect_language *)

GREETINGS ==
    (<<"hello">> :> "english") @@ (<<"hi">> :> "english") @@ (<<"bonjour">> :> "french")
    @@ (<<"salut">> :> "french")

\* what the lingua detector may answer (llm.py:56-74): the language of the
\* highest confidence, "low" when that confidence is under 0.7, "empty" when it
\* gives no result, which is what it gives for a blank text, "raise" when
\* the detector raises; "german" stands for the languages language_map lacks
LinguaOutcomes == {"english", "arabic", "german", "low", "raise"}

lingua(text) == IF text = <<>> THEN {"empty"} ELSE LinguaOutcomes

\* a detection that takes over the detector's language as it is
detect_language_unmapped(state, detected) ==
    LET user_input == strip(state.user_input)
        language ==
            IF lower(user_input) \in DOMAIN GREETINGS THEN GREETINGS[lower(user_input)]
            ELSE IF detected \in {"low", "empty", "raise"} THEN "english"
            ELSE detected
    IN [state EXCEPT !.original_input = PyStr(user_input),
                     !.language = language,
                     !.user_input = user_input]

\* llm.py:43-95; detected is the answer of the detector
detect_language(state, detected) ==
    LET user_input == strip(state.user_input)
        language ==
            IF lower(user_input) \in DOMAIN GREETINGS THEN GREETINGS[lower(user_input)]
            ELSE IF detected \in valid_languages THEN detected
            ELSE "english"
    IN [state EXCEPT !.original_input = PyStr(user_input),
                     !.language = language,
                     !.user_input = user_input]

---------------------------------------------------------------------------
(* chatbot/handlers.py: process_input; chatbot/graph.py: routing *)

Str(t) == PyStr(<<t>>)
AwaitAddress == Str("await_address")

\* a set of intents that keeps the two address intents of extract_answer
process_valid_intents_with_address ==
    {"new_order", "retrieve_order", "list_products", "greeting", "address",
     "update_address", "report_issue", "none"}

\* handlers.py:83-90
process_valid_intents ==
    {"new_order", "retrieve_order", "list_products", "greeting", "report_issue", "none"}

\* handlers.py:37-45 and 137-147
process_input_fallback(state) ==
    [state EXCEPT !.intent = Str("none"),
                  !.requested_items = PyList(<<>>),
                  !.issue_product = Str("none")]

\* handlers.py:96-122, from the extracted Items value to the list
items_list(intent, raw) ==
    IF intent = Str("new_order")
    THEN IF raw = Str("none") \/ ~Truthy(raw) \/ lower(raw.val) = <<"non-relevant">>
         THEN <<>>
         ELSE IF find(raw.val, {","}) # 0 THEN stripped_nonempty(split(raw.val, ","))
         ELSE <<strip(raw.val)>>
    ELSE <<>>

\* an awaited address that also gives the fallback values of the other branches
process_input_address_fallback(state) ==
    [process_input_fallback(state) EXCEPT !.user_input = strip(state.user_input),
                                          !.address = PyStr(strip(state.user_input))]

\* handlers.py:28-35, the message is the address that was asked for
process_input_address(state) ==
    [state EXCEPT !.user_input = strip(state.user_input),
                  !.intent = Str("none"),
                  !.address = PyStr(strip(state.user_input))]

\* handlers.py:19-147; llm is what is extracted from the completion llm.stream
\* gives, or its exception; classified tells whether the language model was
\* asked to classify the input
process_input(state, llm) ==
    LET user_input == strip(state.user_input)
    IN IF state.next_step = AwaitAddress
       THEN [state |-> process_input_address(state), classified |-> FALSE]
       ELSE IF user_input = <<>>
       THEN [state |-> process_input_fallback(state), classified |-> FALSE]
       ELSE IF llm.ty = "raise"
       THEN [state |-> process_input_fallback(state), classified |-> TRUE]
       ELSE
       LET intent0 == llm.intent
           items0 == llm.items
           issue_product == llm.issue_product
           address == llm.address
           valid == intent0.ty = "str" /\ Len(intent0.val) = 1
                    /\ intent0.val[1] \in process_valid_intents
           intent == IF valid THEN intent0 ELSE Str("none")
           items_raw == IF valid THEN items0 ELSE Str("none")
       IN IF "raise" \in {intent0.ty, items0.ty, issue_product.ty, address.ty}
          THEN [state |-> process_input_fallback(state), classified |-> TRUE]
          ELSE [state |-> [state EXCEPT
                             !.intent = intent,
                             !.requested_items = PyList(items_list(intent, items_raw)),
                             !.issue_product = issue_product,
                             !.address = address],
                classified |-> TRUE]

\* a router that looks at the intent only
route_intent_by_intent(state) ==
    IF state.intent = Str("list_products") THEN "handle_list_products"
    ELSE IF state.intent = Str("greeting") THEN "handle_greeting"
    ELSE IF state.intent = Str("new_order") THEN "handle_new_order"
    ELSE IF state.intent = Str("retrieve_order") THEN "retrieve_order"
    ELSE IF state.intent = Str("report_issue") THEN "handle_report_issue"
    ELSE "handle_none"

\* a router that has no edge to retrieve_order
route_intent_without_retrieve(state) ==
    IF state.next_step = AwaitAddress THEN "handle_address_input"
    ELSE IF state.intent = Str("list_products") THEN "handle_list_products"
    ELSE IF state.intent = Str("greeting") THEN "handle_greeting"
    ELSE IF state.intent = Str("new_order") THEN "handle_new_order"
    ELSE IF state.intent = Str("report_issue") THEN "handle_report_issue"
    ELSE "handle_none"

\* graph.py:46-66
route_intent(state) ==
    IF state.next_step = AwaitAddress THEN "handle_address_input"
    ELSE IF state.intent = Str("list_products") THEN "handle_list_products"
    ELSE IF state.intent = Str("greeting") THEN "handle_greeting"
    ELSE IF state.intent = Str("none") THEN "handle_none"
    ELSE IF state.intent = Str("new_order") THEN "handle_new_order"
    ELSE IF state.intent = Str("retrieve_order") THEN "retrieve_order"
    ELSE IF state.intent = Str("report_issue") THEN "handle_report_issue"
    ELSE "handle_none"

\* a router with an edge from handle_new_order to a second intent handler
route_next_step_to_handle_none(state) ==
    IF state.next_step = AwaitAddress THEN "handle_address_input" ELSE "handle_none"

\* graph.py:69-74
route_next_step(state) ==
    IF state.next_step = AwaitAddress THEN "handle_address_input" ELSE "END"

---------------------------------------------------------------------------
(* chatbot/api.py: api_call *)

\* webhook.py:77, phone_number.replace("whatsapp:+216", "")
converty_phone(phone) == SelectSeq(phone, LAMBDA t : t # "whatsapp:+216")

\* handlers.py:321-330 and 571-578; the last token of a number that does not
\* start with whatsapp:+216 is its last eight characters
user_id_converty(phone) ==
    IF phone[1] = "whatsapp:+216" THEN converty_phone(phone) ELSE <<phone[Len(phone)]>>

\* api.py:30-43, the address get_user returns; handlers.py:375 reads "none" from
\* the error dictionary when the query failed
get_user_address(table, user_id, db_ok) ==
    IF ~db_ok THEN <<"none">>
    ELSE IF user_id \in DOMAIN table /\ table[user_id].address # <<>>
    THEN table[user_id].address
    ELSE <<"unknown">>

\* api.py:36-39, get_user adds the user it does not find
get_user_table(table, user_id, name, db_ok) ==
    IF db_ok /\ user_id \notin DOMAIN table
    THEN (user_id :> [name |-> name, address |-> <<"unknown">>]) @@ table
    ELSE table

\* api.py:131-146, update_address; an unknown user is an error result
update_address_table(table, user_id, address) ==
    IF user_id \in DOMAIN table
    THEN [table EXCEPT ![user_id].address = address]
    ELSE table

\* api.py:82-129, new_order: whether the order is created (the user is known, the
\* names map to product ids and the platform accepts the order)
new_order_ok(table, user_id, platform_ok) == user_id \in DOMAIN table /\ platform_ok

\* api.py:86 and 100-102, the address of the customer of the order
new_order_address(payload_address) ==
    IF payload_address.ty = "str" THEN payload_address.val ELSE <<"unknown">>

\* the order the platform holds after create_order (converty.py:211-229)
new_order_record(user_id, items, payload_address) ==
    [phone |-> user_id, items |-> items, address |-> new_order_address(payload_address),
     status |-> "pending"]

\* the values of order_data: None, the result dictionary of a created order
\* (api.py:126), the list get_orders returns (api.py:45-64)
no_order_data == [ty |-> "None", order_id |-> 0, found |-> <<>>]
order_result(id) == [ty |-> "dict", order_id |-> id, found |-> <<>>]
orders_found(found) == [ty |-> "list", order_id |-> 0, found |-> found]

\* api.py:45-64, get_orders: every pending order of the store
get_orders(platform, api_ok) ==
    IF api_ok
    THEN [i \in 1..Len(platform) |->
            [order_id |-> i, items |-> platform[i].items, status |-> platform[i].status]]
    ELSE <<>>

---------------------------------------------------------------------------
(* The messages of handlers.py, one token each *)

localized(language, fr, ar, en) ==
    IF language = "french" THEN <<fr>> ELSE IF language = "arabic" THEN <<ar>> ELSE <<en>>

\* the fixed replies of the handlers, by the branch that gives them
reply_text(id, language) ==
    CASE id = "no_products_available" ->
             localized(language, "Desole, aucun produit n'est disponible pour le moment.",
                       "(arabic) Sorry, no products are available at the moment.",
                       "Sorry, no products are available at the moment.")
      [] id = "product_list" ->
             localized(language, "Voici nos produits : ... Comment puis-je vous aider ?",
                       "(arabic) Here are our products: ... How can I assist you?",
                       "Here are our products: ... How can I assist you?")
      [] id = "clarify" ->
             localized(language, "Desole, je n'ai pas compris votre demande. ...",
                       "(arabic) Sorry, I didn't understand your request. ...",
                       "Sorry, I didn't understand your request. ...")
      [] id = "greeting" ->
             localized(language, "Bonjour ! Comment puis-je vous aider aujourd'hui ?",
                       "(arabic) Hello! How can I assist you today?",
                       "Hello! How can I assist you today?")
      [] id = "specify_products" ->
             localized(language, "Desole, une erreur s'est produite avec votre commande. Pouvez-vous preciser les produits ?",
                       "(arabic) Sorry, an error occurred with your order. Could you specify the products?",
                       "Sorry, an error occurred with your order. Could you specify the products?")
      [] id = "no_items" ->
             localized(language, "Desole, aucun produit n'a ete specifie. Pouvez-vous preciser le nom du produit ?",
                       "(arabic) Sorry, no products were specified. Could you specify the product name?",
                       "Sorry, no products were specified. Could you specify the product name?")
      [] id = "not_found" ->
             localized(language, "Desole, je n'ai pas trouve les produits que vous souhaitez commander. ...",
                       "(arabic) Sorry, I couldn't find the products you want to order. ...",
                       "Sorry, I couldn't find the products you want to order. ...")
      [] id = "not_available" ->
             localized(language, "Les produits ... ne sont pas disponibles. Voulez-vous voir nos produits ?",
                       "(arabic) The products ... are not available. Would you like to see our products?",
                       "The products ... are not available. Would you like to see our products?")
      [] id = "order_error" ->
             localized(language, "Une erreur s'est produite lors de la creation de votre commande pour ... Veuillez reessayer.",
                       "(arabic) An error occurred while creating your order for ... Please try again.",
                       "An error occurred while creating your order for ... Please try again.")
      [] id = "provide_address" ->
             localized(language, "Veuillez fournir votre adresse pour commander ...",
                       "(arabic) Please provide your address to order ...",
                       "Please provide your address to order ...")
      [] id = "valid_address" ->
             localized(language, "Veuillez fournir une adresse valide pour commander ...",
                       "(arabic) Please provide a valid address to order ...",
                       "Please provide a valid address to order ...")
      [] id = "no_products_selected" ->
             localized(language, "Erreur : aucun produit selectionne. ...",
                       "(arabic) Error: No products selected. ...",
                       "Error: No products selected. Please specify the products you want to order.")

---------------------------------------------------------------------------
(* chatbot/handlers.py: the handlers.  A handler's result is the state it   *)
(* returns, the tables after its api_call's, the new_order calls it made,   *)
(* whether it raised, and the items it asked the address for (if it did).   *)

\* the product matching of a handle_new_order run: the requested names, the
\* catalog it fetched and matched_products as it stands at handlers.py:447
NotResolved == [ran |-> FALSE, names |-> <<>>, catalog |-> <<>>, matched |-> <<>>]

Result(state, table, platform, claims, calls, raised) ==
    [state |-> state, users |-> table, orders |-> platform, issues |-> claims,
     calls |-> calls, raised |-> raised, asked |-> PyNone, resolved |-> NotResolved]

\* a fallback that takes whatever was extracted, None included
reply_or_unchecked(g, default) ==
    IF g.ty # "raise" THEN g ELSE PyStr(default)

\* handlers.py:212-219, 262-269, 304-311: the generated reply g when there is
\* one, the default when the call raised or extracted nothing
reply_or(g, default) ==
    IF g.ty # "raise" /\ Truthy(g) THEN g ELSE PyStr(default)

\* handlers.py:150-221
handle_list_products(state, catalog, g) ==
    IF catalog = <<>>
    THEN [state EXCEPT !.response = PyStr(reply_text("no_products_available", state.language))]
    ELSE [state EXCEPT !.response = reply_or(g, reply_text("product_list", state.language))]

\* handlers.py:224-271
handle_none(state, g) ==
    [state EXCEPT !.response = reply_or(g, reply_text("clarify", state.language))]

\* handlers.py:274-313
handle_greeting(state, g) ==
    [state EXCEPT !.response = reply_or(g, reply_text("greeting", state.language))]

nones(n) == [i \in 1..n |-> <<"none">>]

\* handlers.py:419-445, one matched name per requested item; m is what is
\* extracted for **Products:**, or the exception of the call
match_products(n, m) ==
    LET all == IF m.ty = "list" THEN m.elems ELSE m.val
        cut == SubSeq(all, 1, IF n < Len(all) THEN n ELSE Len(all))
    IN IF m.ty \in {"raise", "None"} THEN nones(n)
       ELSE IF m.ty = "list"
       THEN (IF Len(cut) < n THEN cut \o nones(n - Len(cut)) ELSE cut)
       ELSE (IF Len(cut) < n THEN nones(n) ELSE [i \in 1..n |-> <<cut[i]>>])

\* a check that keeps every matched name but the marker none
valid_products_unchecked(matched, products) ==
    SelectSeq(matched, LAMBDA p : p # <<"none">>)

\* handlers.py:461-469
valid_products(matched, products) ==
    SelectSeq(matched,
              LAMBDA p : p # <<"none">>
                         /\ \E i \in 1..Len(products) : lower(products[i].name) = lower(p))

\* handlers.py:488, the stored address is usable
has_address(existing_address) == existing_address \notin {<<"none">>, <<"unknown">>}

\* handlers.py:536-560, the address is asked for; g is the generated message
ask_address(state, g) ==
    [state EXCEPT !.response = IF g.ty = "raise"
                               THEN PyStr(reply_text("provide_address", state.language)) ELSE g,
                  !.next_step = AwaitAddress]

\* handlers.py:316-563; e is what the environment does during the call:
\* db_ok, catalog, match (LLM), platform_ok, reply (LLM)
\* handlers.py:396-445: no matching call is made when there are no requested
\* items or no products, and matched_products stays []
matched_products(items, products, m) ==
    IF items # <<>> /\ products # <<>> THEN match_products(Len(items), m) ELSE <<>>

\* a test that takes a list of markers none for a list of product names
none_matched_only_empty(matched) == matched = <<>>

\* handlers.py:448, no requested name was matched
none_matched(matched) ==
    matched = <<>> \/ \A i \in 1..Len(matched) : matched[i] = <<"none">>

handle_new_order(state, phone, name, table, platform, claims, e) ==
    LET language == state.language
        requested == state.requested_items
        items == IF requested.ty = "str" THEN <<strip(requested.val)>> ELSE requested.elems
        table1 == get_user_table(table, phone, name, e.db_ok)
        existing_address == get_user_address(table, phone, e.db_ok)
        products == e.catalog
        matched == matched_products(items, products, e.match)
        resolved == [ran |-> TRUE, names |-> items, catalog |-> products,
                     matched |-> matched]
        valid == valid_products(matched, products)
        state1 == [state EXCEPT !.requested_items = PyList(valid)]
        user_id == user_id_converty(phone)
        created == new_order_ok(table1, user_id, e.platform_ok)
        call == [node |-> "handle_new_order", user |-> user_id, items |-> valid,
                 address |-> new_order_address(PyStr(existing_address)), ok |-> created]
        g == e.reply
    IN IF requested.ty \notin {"str", "list"}
       THEN Result([state EXCEPT !.response = PyStr(reply_text("specify_products", language))],
                   table, platform, claims, <<>>, FALSE)
       ELSE IF requested.ty = "list" /\ requested.elems = <<>>
       THEN Result([state EXCEPT !.response = PyStr(reply_text("no_items", language))],
                   table, platform, claims, <<>>, FALSE)
       ELSE [(IF none_matched(matched)
       THEN Result([state EXCEPT !.response = PyStr(reply_text("not_found", language))],
                   table1, platform, claims, <<>>, FALSE)
       ELSE IF valid = <<>>
       THEN Result([state EXCEPT !.response = PyStr(reply_text("not_available", language))],
                   table1, platform, claims, <<>>, FALSE)
       ELSE IF has_address(existing_address)
       THEN IF ~created
            THEN Result([state1 EXCEPT !.response = PyStr(reply_text("order_error", language))],
                        table1, platform, claims, <<call>>, FALSE)
            ELSE LET platform1 == Append(platform,
                                         new_order_record(user_id, valid,
                                                          PyStr(existing_address)))
                     state2 == [state1 EXCEPT !.order_data = order_result(Len(platform1))]
                 IN IF g.ty = "raise"
                    THEN Result([state2 EXCEPT !.response = PyStr(reply_text("order_error", language))],
                                table1, platform1, claims, <<call>>, FALSE)
                    ELSE Result([state2 EXCEPT !.response = g,
                                               !.next_step = PyNone,
                                               !.requested_items = PyList(<<>>)],
                                table1, platform1, claims, <<call>>, FALSE)
       ELSE [Result(ask_address(state1, g), table1, platform, claims, <<>>, FALSE)
                EXCEPT !.asked = PyList(valid)])
             EXCEPT !.resolved = resolved]

\* an error branch that drops the items and keeps waiting for the address
address_order_failed_drops_items(state) ==
    [state EXCEPT !.requested_items = PyList(<<>>)]

\* handlers.py:623-630, new_order returned an error: the message is built in the
\* local variable response and the state is left as it is
address_order_failed(state) == state

\* a test that takes only a missing list for no items
no_items_only_none(requested) == requested.ty = "None"

\* handlers.py:601, "if not requested_items"
no_items(requested) == ~Truthy(requested)

\* handlers.py:566-658; e: db_ok, platform_ok, reply (LLM)
handle_address_input(state, phone, table, platform, claims, e) ==
    LET language == state.language
        user_input == strip(state.user_input)
        requested == state.requested_items
        table1 == IF e.db_ok THEN update_address_table(table, phone, user_input) ELSE table
        user_id == user_id_converty(phone)
        created == new_order_ok(table1, user_id, e.platform_ok)
        call == [node |-> "handle_address_input", user |-> user_id,
                 items |-> requested.elems, address |-> new_order_address(PyNone),
                 ok |-> created]
        g == e.reply
    IN IF user_input = <<>>
       THEN IF requested.ty \notin {"str", "list"}
            THEN Result(state, table, platform, claims, <<>>, TRUE)  \* join(None)
            ELSE Result([state EXCEPT !.response = PyStr(reply_text("valid_address", language)),
                                      !.next_step = AwaitAddress],
                        table, platform, claims, <<>>, FALSE)
       ELSE IF no_items(requested)
       THEN Result([state EXCEPT !.response = PyStr(reply_text("no_products_selected", language)),
                                 !.next_step = PyNone],
                   table, platform, claims, <<>>, FALSE)
       ELSE IF ~created
       THEN Result(address_order_failed(state), table1, platform, claims, <<call>>, FALSE)
       ELSE LET platform1 == Append(platform, new_order_record(user_id, requested.elems, PyNone))
                state1 == [state EXCEPT !.order_data = order_result(Len(platform1))]
            IN IF g.ty = "raise"
               THEN Result([state1 EXCEPT !.response = PyStr(reply_text("order_error", language))],
                           table1, platform1, claims, <<call>>, FALSE)
               ELSE Result([state1 EXCEPT !.response = g,
                                          !.next_step = PyNone,
                                          !.requested_items = PyList(<<>>),
                                          !.address = PyNone],
                           table1, platform1, claims, <<call>>, FALSE)

\* handlers.py:661-709; e: api_ok, reply (LLM), reply2 (LLM of the except branch)
retrieve_order(state, platform, e) ==
    LET found == get_orders(platform, e.api_ok)
        state1 == [state EXCEPT !.order_data = orders_found(found)]
        g == e.reply
        g2 == e.reply2
    IN IF g.ty # "raise" THEN [state |-> [state1 EXCEPT !.response = g], raised |-> FALSE]
       ELSE IF g2.ty # "raise" THEN [state |-> [state1 EXCEPT !.response = g2], raised |-> FALSE]
       ELSE [state |-> state, raised |-> TRUE]

RECURSIVE flatten(_)
flatten(l) == IF l = <<>> THEN <<>> ELSE Head(l) \o flatten(Tail(l))

claim_categories == valid_category

\* handlers.py:773-777, the product the language model matched, or the exception
matched_issue_product(m) ==
    IF m.ty = "list" THEN PyStr(IF m.elems # <<>> THEN m.elems[1] ELSE <<"none">>)
       ELSE IF m.ty = "str" THEN m
       ELSE PyRaise  \* None.lower()

\* handlers.py:838-849, the category that is saved
claim_category(c) ==
    IF c.ty = "raise" THEN PyRaise
       ELSE IF c.ty = "str" /\ Len(c.val) = 1 /\ c.val[1] \in claim_categories THEN c
       ELSE Str("other")

\* handlers.py:712-895; e: api_ok, db_ok, match, category, reply, reply2 (LLM calls)
handle_report_issue(state, phone, name, table, platform, claims, e) ==
    LET issue_product == state.issue_product
        found == get_orders(platform, e.api_ok)
        ordered_items == flatten([i \in 1..Len(found) |-> found[i].items])
        matched == matched_issue_product(e.match)
        in_orders == \E i \in 1..Len(ordered_items) :
                        lower(ordered_items[i]) = lower(matched.val)
        category == claim_category(e.category)
        saved == e.db_ok /\ phone \in DOMAIN table
        claims1 == Append(claims, [phone |-> phone, product |-> matched.val,
                                   type |-> category.val])
        g == e.reply
        g2 == e.reply2
        done(st1) == [st1 EXCEPT !.next_step = PyNone, !.issue_product = PyNone]
        plain(c) ==  \* a reply generated outside the try block
            IF g.ty = "raise" THEN Result(state, table, platform, claims, <<>>, TRUE)
            ELSE Result(done([state EXCEPT !.response = g]), table, platform, c, <<>>, FALSE)
        except(c) ==  \* handlers.py:877-890
            IF g2.ty = "raise" THEN Result(state, table, platform, claims, <<>>, TRUE)
            ELSE Result(done([state EXCEPT !.response = g2]), table, platform, c, <<>>, FALSE)
        tried(c) ==  \* a reply generated inside the try block
            IF g.ty = "raise" THEN except(c)
            ELSE Result(done([state EXCEPT !.response = g]), table, platform, c, <<>>, FALSE)
    IN IF ~Truthy(issue_product) \/ issue_product = Str("none") THEN plain(claims)
       ELSE IF ordered_items = <<>> THEN plain(claims)
       ELSE IF matched.ty = "raise" THEN except(claims)
       ELSE IF lower(matched.val) = <<"none">> \/ ~in_orders THEN tried(claims)
       ELSE IF category.ty = "raise" THEN except(claims)
       ELSE IF ~saved THEN except(claims)  \* result['issue_id'] of an error result
       ELSE tried(claims1)

---------------------------------------------------------------------------
(* chatbot/webhook.py: whatsapp_webhook, and the workflow of graph.py *)

None == PyNone

\* webhook.py:94-105
new_agent_state ==
    [user_input |-> <<>>, original_input |-> None, language |-> "english",
     address |-> Str("unknown"), response |-> PyStr(<<>>), intent |-> None,
     next_step |-> None, order_data |-> no_order_data, requested_items |-> None,
     issue_product |-> None]

\* what a turn has done: the nodes it ran, the new_order calls it made, ...
idle_turn ==
    [phone |-> <<>>, awaited |-> FALSE, nodes |-> <<>>, classified |-> FALSE,
     calls |-> <<>>, asked |-> PyNone, resolved |-> NotResolved, stored |-> FALSE,
     outcome |-> "none", before |-> <<>>]

DialogueInit ==
    /\ conversation_states = <<>>
    /\ users = <<>>
    /\ orders = <<>>
    /\ issues = <<>>
    /\ pc = "idle"
    /\ cur = [phone |-> <<>>, name |-> <<>>, body |-> <<>>]
    /\ st = new_agent_state
    /\ turn = idle_turn
    /\ sent = <<>>
    /\ nturns = 0

---------------------------------------------------------------------------
(* logic/agent_state.py, logic/sql.py: the nodes convert_nl_to_sql and      *)
(* execute_sql.  A caller runs them in turn: a query is generated, it is    *)
(* executed, and a failed execution leads to the next generation.           *)

MAX_ATTEMPTS == 3

\* the LLM calls one run of the loop may make in the model
MaxGenerations == 5

\* agent_state.py:29-43, the fields the two nodes read or write, with their
\* defaults
sql_agent_state ==
    [sql_query |-> PyList(<<>>), query_rows |-> PyList(<<>>), attempts |-> 0,
     sql_error |-> FALSE, sql_error_message |-> PyStr(<<>>), row_count |-> 0,
     product_exists |-> FALSE, corrected_product_items |-> <<>>]

\* AgentState(**fields) validates the fields against their annotations:
\* sql_query and query_rows are lists and sql_error_message is a str, None is
\* none of them.  The validators of agent_state.py:46-61 are functions of the
\* module, not of the class, and convert nothing.
agent_state_valid(fields) ==
    /\ fields.sql_query.ty = "list"
    /\ fields.query_rows.ty = "list"
    /\ fields.sql_error_message.ty = "str"

\* the outcome of a node: the exception it raised ("" when it returned), the
\* state it returned, whether it called the LLM, and the error message it put
\* into the prompt (None when the prompt has none)
SqlOut(exc, state, generated, folded) ==
    [exc |-> exc, state |-> state, generated |-> generated, folded |-> folded]

\* return AgentState(**fields)
sql_return(fields, old, generated, folded) ==
    IF agent_state_valid(fields) THEN SqlOut("", fields, generated, folded)
    ELSE SqlOut("ValidationError", old, generated, folded)


\* what the LLM may answer to the conversion prompt
SqlCompletions ==
    {<<"~~~sql", "\n", "INSERT", "\n", FenceClose>>,
     <<"<think>", "joins", "</think>", "\n", "~~~sql", "SELECT", FenceClose>>,
     <<"INSERT">>,
     <<"~~~sql", " ", FenceClose>>}

\* sql.py:108-110, re.sub of the first <think>...</think> span
remove_think(text) ==
    LET a == find(text, {"<think>"})
        b == IF a = 0 THEN 0
             ELSE find(SubSeq(text, a + 1, Len(text)), {"</think>"})
    IN IF a = 0 \/ b = 0 THEN strip(text)
       ELSE strip(SubSeq(text, 1, a - 1) \o SubSeq(text, a + b + 1, Len(text)))

\* sql.py:113-119, the non-empty queries of the sql blocks of the completion
RECURSIVE sql_blocks(_)
sql_blocks(text) ==
    LET a == find(text, {"~~~sql"})
        rest == IF a = 0 THEN <<>> ELSE SubSeq(text, a + 1, Len(text))
        b == find(rest, {FenceClose})
        query == IF b = 0 THEN <<>> ELSE strip(SubSeq(rest, 1, b - 1))
    IN IF a = 0 \/ b = 0 THEN <<>>
       ELSE (IF query = <<>> THEN <<>> ELSE <<query>>)
            \o sql_blocks(SubSeq(rest, b + 1, Len(rest)))


\* a counter that counts every generation, the first one included
new_attempts_counts_first(state) == state.attempts + 1

\* sql.py:124-128
new_attempts(state) ==
    IF state.sql_error
       /\ find(lower(state.sql_error_message.val), {"does not return rows"}) = 0
    THEN state.attempts + 1 ELSE 0

\* sql.py:11-131.  kind is the type of the state argument, completion is what
\* the LLM streams when it is called
convert_nl_to_sql(kind, state, completion) ==
    LET retry == state.sql_error /\ Truthy(state.sql_error_message)
        sql_queries == sql_blocks(remove_think(strip(completion)))
        folded == IF retry THEN state.sql_error_message ELSE PyNone
    IN IF kind # "dict"
       THEN SqlOut("TypeError", state, FALSE, PyNone)
       ELSE IF ~state.product_exists \/ state.corrected_product_items = <<>>
       THEN sql_return([state EXCEPT !.sql_query = PyNone], state, FALSE, PyNone)
       ELSE IF state.attempts >= MAX_ATTEMPTS
       THEN \* line 44: state is a dict and has no model_dump
            SqlOut("AttributeError", state, FALSE, PyNone)
       ELSE IF retry /\ state.row_count = 0
       THEN \* line 76: state is a dict and has no model_dump
            SqlOut("AttributeError", state, FALSE, PyNone)
       ELSE IF sql_queries = <<>>
       THEN SqlOut("ValueError", state, TRUE, folded)
       ELSE sql_return([state EXCEPT !.sql_query = PyList(sql_queries),
                                     !.attempts = new_attempts(state)],
                       state, TRUE, folded)


\* what connection.execute may do: the row count of the statement, or the
\* message of the exception it raises
DbOutcomes ==
    {[raised |-> FALSE, rowcount |-> n, msg |-> <<>>] : n \in {0, 1}}
    \cup {[raised |-> TRUE, rowcount |-> 0, msg |-> m] :
          m \in {<<"syntax error">>, <<"This result object", " ", "does not return rows">>}}

\* sql.py:134-161.  An exception of the try block, that of the AgentState
\* constructor of line 148 included, ends in the except branch of line 157
execute_sql(state, db) ==
    LET query == IF Truthy(state.sql_query) THEN state.sql_query.elems[1] ELSE <<>>
        failed(m) == [state EXCEPT !.sql_error = TRUE, !.sql_error_message = PyStr(m)]
        done == [state EXCEPT !.query_rows = PyNone, !.sql_error = FALSE,
                              !.sql_error_message = PyNone, !.row_count = db.rowcount]
    IN IF query = <<>> THEN failed(<<"No SQL query provided">>)
       ELSE IF db.raised THEN failed(db.msg)
       ELSE IF agent_state_valid(done) THEN done
       ELSE failed(<<"validation errors for AgentState">>)

sql_idle_hist == [kind |-> "dict", generations |-> <<>>, executions |-> <<>>,
                  entry |-> 0, exit |-> ""]

SqlIdle ==
    /\ sql_state = sql_agent_state
    /\ sql_pc = "idle"
    /\ sql_hist = sql_idle_hist

---------------------------------------------------------------------------
(* api/converty.py: the calls to the commerce platform.  A call fetches an   *)
(* access token, sends its request, and on a 401 response fetches a new      *)
(* token and sends the request again.                                        *)

\* the calls made in a run of the model
MaxCalls == 2

CommerceCalls == {"fetch_converty_products", "create_order", "get_customer_orders"}

\* converty.py:19-37, get_valid_access_token returns the token of the refresh
\* server (which may be the empty string) or raises
TokenOutcomes == {"token", "empty", "raise"}

\* what requests.get / requests.post may give: a response with a status code
\* and the success flag of its body, or a RequestException (code 0)
Responses ==
    {[code |-> 200, success |-> TRUE], [code |-> 200, success |-> FALSE],
     [code |-> 401, success |-> FALSE], [code |-> 500, success |-> FALSE],
     [code |-> 0, success |-> FALSE]}

\* a condition that sends the request again after every error status
unauthorized_or_error(code) == code >= 400

\* converty.py:66, 270, 362
unauthorized(code) == code = 401

\* converty.py:75-87, 281-289, 371-379: raise_for_status and the success flag
response_outcome(response) ==
    IF response.code >= 400 THEN "raised"
    ELSE IF ~response.success THEN "raised"
    ELSE "returned"

TokenEvent(outcome) == [ev |-> "token", code |-> 0, token |-> outcome]
SendEvent(response) == [ev |-> "send", code |-> response.code, token |-> ""]

HttpIdle ==
    /\ http_pc = "idle"
    /\ http_call = [fn |-> "", events |-> <<>>]
    /\ http_n = 0

---------------------------------------------------------------------------
(* The initial state of the dialogue *)

\* a store that writes the state to the entry of every counterparty
store_for_all(states, phone, state) ==
    [p \in DOMAIN states \cup {phone} |-> state]

\* webhook.py:118, conversation_states[phone_number] = state
store(states, phone, state) == (phone :> state) @@ states

\* a webhook that starts every turn from the default state
ensure_state_reset(states, phone) == (phone :> new_agent_state) @@ states

\* webhook.py:93-105, the default state of a counterparty that has no entry
ensure_state(states, phone) ==
    IF phone \in DOMAIN states THEN states ELSE (phone :> new_agent_state) @@ states

\* the counterparties of the requests in flight
ConcPhones == {PhoneTN, <<"whatsapp:+216", "20000002">>}

\* no request is in flight
ConcIdle ==
    /\ requests = <<>>
    /\ loop = 0
    /\ writes = [p \in ConcPhones |-> 0]

ParseIdle ==
    /\ p_response = PyNone
    /\ p_key = KeyIntent
    /\ p_result = PyNone

Init == DialogueInit /\ ParseIdle /\ SqlIdle /\ HttpIdle /\ ConcIdle

\* webhook.py:70-115: the user row, the conversation state, the start of graph.invoke
Receive(phone, name, body, db_ok) ==
    /\ pc = "idle"
    /\ nturns < MaxTurns
    /\ nturns' = nturns + 1
    /\ cur' = [phone |-> phone, name |-> name, body |-> body]
    /\ sent' = <<>>
    /\ UNCHANGED <<orders, issues, parse_vars, sql_vars, http_vars, conc_vars>>
    /\ IF ~db_ok
       THEN \* the query raised; the except branch reads the unbound local state
            /\ turn' = [idle_turn EXCEPT !.phone = phone, !.outcome = "failed",
                                         !.before = conversation_states]
            /\ UNCHANGED <<conversation_states, users, pc, st>>
       ELSE LET known == ensure_state(conversation_states, phone)
            IN /\ users' = IF converty_phone(phone) \in DOMAIN users THEN users
                           ELSE (converty_phone(phone) :>
                                    [name |-> name, address |-> <<"unknown">>]) @@ users
               /\ conversation_states' = known
               /\ st' = [known[phone] EXCEPT !.user_input = strip(body)]
               /\ turn' = [idle_turn EXCEPT !.phone = phone,
                                            !.awaited = (known[phone].next_step = AwaitAddress),
                                            !.outcome = "running",
                                            !.before = conversation_states]
               /\ pc' = "detect_language"

Visit(node) == [turn EXCEPT !.nodes = Append(@, node)]

DetectLanguage ==
    /\ pc = "detect_language"
    /\ st' \in {detect_language(st, detected) : detected \in lingua(strip(st.user_input))}
    /\ turn' = Visit("detect_language")
    /\ pc' = "process_input"
    /\ UNCHANGED <<conversation_states, users, orders, issues, cur, sent, nturns, parse_vars, sql_vars, http_vars, conc_vars>>

ProcessInput ==
    /\ pc = "process_input"
    /\ \E r \in {process_input(st, llm) : llm \in Classifications} :
          /\ st' = r.state
          /\ pc' = route_intent(r.state)
          /\ turn' = [Visit("process_input") EXCEPT !.classified = r.classified]
    /\ UNCHANGED <<conversation_states, users, orders, issues, cur, sent, nturns, parse_vars, sql_vars, http_vars, conc_vars>>

HandleListProducts ==
    /\ pc = "handle_list_products"
    /\ st' \in {handle_list_products(st, catalog, g) : catalog \in Catalogs, g \in Replies}
    /\ turn' = Visit("handle_list_products")
    /\ pc' = "END"
    /\ UNCHANGED <<conversation_states, users, orders, issues, cur, sent, nturns, parse_vars, sql_vars, http_vars, conc_vars>>

HandleNone ==
    /\ pc = "handle_none"
    /\ st' \in {handle_none(st, g) : g \in Replies}
    /\ turn' = Visit("handle_none")
    /\ pc' = "END"
    /\ UNCHANGED <<conversation_states, users, orders, issues, cur, sent, nturns, parse_vars, sql_vars, http_vars, conc_vars>>

HandleGreeting ==
    /\ pc = "handle_greeting"
    /\ st' \in {handle_greeting(st, g) : g \in Replies}
    /\ turn' = Visit("handle_greeting")
    /\ pc' = "END"
    /\ UNCHANGED <<conversation_states, users, orders, issues, cur, sent, nturns, parse_vars, sql_vars, http_vars, conc_vars>>

\* the effects of a handler that calls api_call
Apply(node, r, next) ==
    /\ st' = IF r.raised THEN st ELSE r.state
    /\ users' = r.users
    /\ orders' = r.orders
    /\ issues' = r.issues
    /\ turn' = [Visit(node) EXCEPT !.calls = @ \o r.calls,
                                   !.asked = IF r.asked.ty = "list" THEN r.asked ELSE @,
                                   !.resolved = IF r.resolved.ran THEN r.resolved ELSE @]
    /\ pc' = IF r.raised THEN "raised" ELSE next

\* what the environment may do during a handler
NewOrderEnv ==
    [db_ok : BOOLEAN, catalog : Catalogs, match : Matches, platform_ok : BOOLEAN,
     reply : Replies]

AddressInputEnv == [db_ok : BOOLEAN, platform_ok : BOOLEAN, reply : Replies]

RetrieveOrderEnv == [api_ok : BOOLEAN, reply : Replies, reply2 : Replies]

ReportIssueEnv ==
    [api_ok : BOOLEAN, db_ok : BOOLEAN, match : Matches, category : Categories,
     reply : Replies, reply2 : Replies]

HandleNewOrder ==
    /\ pc = "handle_new_order"
    /\ \E r \in {handle_new_order(st, cur.phone, cur.name, users, orders, issues, e) :
                 e \in NewOrderEnv} :
          Apply("handle_new_order", r, route_next_step(r.state))
    /\ UNCHANGED <<conversation_states, cur, sent, nturns, parse_vars, sql_vars, http_vars, conc_vars>>

HandleAddressInput ==
    /\ pc = "handle_address_input"
    /\ \E r \in {handle_address_input(st, cur.phone, users, orders, issues, e) :
                 e \in AddressInputEnv} :
          Apply("handle_address_input", r, "END")
    /\ UNCHANGED <<conversation_states, cur, sent, nturns, parse_vars, sql_vars, http_vars, conc_vars>>

RetrieveOrder ==
    /\ pc = "retrieve_order"
    /\ \E r \in {retrieve_order(st, orders, e) : e \in RetrieveOrderEnv} :
          /\ st' = r.state
          /\ pc' = IF r.raised THEN "raised" ELSE "END"
    /\ turn' = Visit("retrieve_order")
    /\ UNCHANGED <<conversation_states, users, orders, issues, cur, sent, nturns, parse_vars, sql_vars, http_vars, conc_vars>>

HandleReportIssue ==
    /\ pc = "handle_report_issue"
    /\ \E r \in {handle_report_issue(st, cur.phone, cur.name, users, orders, issues, e) :
                 e \in ReportIssueEnv} :
          Apply("handle_report_issue", r, "END")
    /\ UNCHANGED <<conversation_states, cur, sent, nturns, parse_vars, sql_vars, http_vars, conc_vars>>

\* webhook.py:116-150: the state is stored, the reply is sent; turn.before, the
\* entries before the turn, is kept only until the result replaces the entry
WebhookReply ==
    /\ pc = "END"
    /\ conversation_states' = store(conversation_states, cur.phone, st)
    /\ \E twilio_ok \in BOOLEAN :
          IF st.response.ty = "str" /\ twilio_ok
          THEN /\ sent' = Append(sent, [to |-> cur.phone, body |-> st.response])
               /\ turn' = [turn EXCEPT !.stored = TRUE, !.outcome = "replied",
                                        !.before = <<>>]
               /\ pc' = "idle"
          ELSE \* "No products found" in None, or TwilioRestException
               /\ pc' = "except"
               /\ turn' = [turn EXCEPT !.stored = TRUE, !.before = <<>>]
               /\ UNCHANGED sent
    /\ UNCHANGED <<users, orders, issues, cur, st, nturns, parse_vars, sql_vars, http_vars, conc_vars>>

\* webhook.py:152-176: the except branch of the webhook
WebhookExcept ==
    /\ pc \in {"raised", "except"}
    /\ \E g \in Replies, twilio_ok \in BOOLEAN :
          IF g.ty # "raise" /\ twilio_ok
          THEN /\ sent' = Append(sent, [to |-> cur.phone, body |-> g])
               /\ turn' = [turn EXCEPT !.outcome = "error_replied"]
          ELSE /\ turn' = [turn EXCEPT !.outcome = "failed"]
               /\ UNCHANGED sent
    /\ pc' = "idle"
    /\ UNCHANGED <<conversation_states, users, orders, issues, cur, st, nturns, parse_vars, sql_vars, http_vars, conc_vars>>

Next ==
    \/ \E phone \in Phones, name \in ProfileNames, body \in Bodies, db_ok \in BOOLEAN :
          Receive(phone, name, body, db_ok)
    \/ DetectLanguage
    \/ ProcessInput
    \/ HandleListProducts
    \/ HandleNone
    \/ HandleGreeting
    \/ HandleNewOrder
    \/ HandleAddressInput
    \/ RetrieveOrder
    \/ HandleReportIssue
    \/ WebhookReply
    \/ WebhookExcept

Spec == Init /\ [][Next]_vars

---------------------------------------------------------------------------
(* extract_answer on its own: a response and a key are drawn, the function  *)
(* is applied once                                                          *)

\* completions of the language model: tagged lines in and out of the domains,
\* with upper case, empty values, text without any tag, fenced JSON documents,
\* a fence that holds no JSON, a fence that is never closed
ParseTexts ==
    ClassificationTexts \cup MatchTexts \cup ReplyTexts \cup CategoryTexts
    \cup {<<KeyIntent, " ", "New_Order">>,
          <<KeyIntent, " ", "chitchat">>,
          <<KeyIntent, " ", "address">>,
          <<KeyIntent, " ", "update_address", "\n">>,
          <<KeyIntent>>,
          <<KeyCategory, " ", "wrong_item">>,
          <<KeyCategory, " ", "Other">>,
          <<KeyCategory, " ", "other", "\n", KeyResponse, " ", "Hello">>,
          <<KeyLanguage, " ", "French">>,
          <<KeyLanguage, " ", "arabic">>,
          <<KeyLanguage, " ", "klingon">>,
          <<KeyLanguage, " ">>,
          <<KeyProducts, " ">>,
          <<KeyProducts, " ", ",", " ", "Lamp", ",", ",">>,
          <<KeyAddress, " ", "12", " ", "Main", " ", "Street", "\n">>,
          <<KeyResponse, " ", "Hello", " ", "**", "Ali", "**">>,
          <<KeyResponse, " ", "\n">>,
          <<>>,
          <<FenceOpen, "not json", FenceClose>>,
          <<FenceOpen, "not json", FenceClose, "\n", KeyIntent, " ", "greeting">>,
          <<FenceOpen, JsonResponse, FenceClose, "\n", KeyIntent, " ", "greeting">>,
          <<FenceOpen, JsonOrderOne, FenceClose, "\n", KeyIntent, " ", "greeting">>,
          classification(<<"new_order">>, <<"a", ",", "b">>, <<"none">>),
          <<KeyProducts, " ", "none">>,
          <<KeyProducts, " ", "None", "\n">>,
          <<KeyIssueProduct, " ", "none">>,
          <<FenceOpen, "\n", JsonOrderTwo, "\n", KeyIntent, " ", "greeting">>}
    \cup {<<FenceOpen, "\n", d, "\n", FenceClose>> : d \in JsonDocuments}

\* the response argument: a completion, or a value that is not a str
ParseResponses == {PyStr(t) : t \in ParseTexts} \cup {PyNone}

Pending == [ty |-> "pending", val |-> <<>>, elems |-> <<>>]

ParseInit ==
    /\ DialogueInit /\ SqlIdle /\ HttpIdle /\ ConcIdle
    /\ p_response \in ParseResponses
    /\ p_key \in Keys
    /\ p_result = Pending

Parse ==
    /\ p_result = Pending
    /\ p_result' = extract_answer(p_response, p_key)
    /\ UNCHANGED <<p_response, p_key, dialogue_vars, sql_vars, http_vars, conc_vars>>

ParseSpec == ParseInit /\ [][Parse]_vars

---------------------------------------------------------------------------
(* handle_address_input on its own: the turn of a counterparty whose stored  *)
(* state has next_step = await_address, from the node handle_address_input   *)
(* on, for every list of requested_items the state may hold                  *)

AddressItems ==
    {PyNone, PyList(<<>>), PyList(<< <<"Lamp">> >>), PyList(<< <<"Lamp">>, <<"Press">> >>)}

\* webhook.py:107-115 and graph.py:79-95: the state detect_language and
\* process_input hand to handle_address_input
AddressInit ==
    /\ ParseIdle /\ SqlIdle /\ HttpIdle /\ ConcIdle
    /\ \E items \in AddressItems, body \in Bodies, has_row \in BOOLEAN :
          LET stored == [new_agent_state EXCEPT !.next_step = AwaitAddress,
                                                !.requested_items = items]
              state == [stored EXCEPT !.user_input = strip(body)]
          IN /\ conversation_states = (PhoneTN :> stored)
             /\ users = IF has_row
                        THEN (converty_phone(PhoneTN) :>
                                 [name |-> <<"Ali">>, address |-> <<"unknown">>])
                        ELSE <<>>
             /\ cur = [phone |-> PhoneTN, name |-> <<"Ali">>, body |-> body]
             /\ st \in {process_input(detect_language(state, detected), PyRaise).state :
                           detected \in lingua(strip(body))}
             /\ turn = [idle_turn EXCEPT !.phone = PhoneTN, !.awaited = TRUE,
                                         !.nodes = <<"detect_language", "process_input">>,
                                         !.outcome = "running",
                                         !.before = (PhoneTN :> stored)]
    /\ orders = <<>>
    /\ issues = <<>>
    /\ pc = "handle_address_input"
    /\ sent = <<>>
    /\ nturns = 1

AddressNext == HandleAddressInput \/ WebhookReply \/ WebhookExcept

AddressSpec == AddressInit /\ [][AddressNext]_vars

---------------------------------------------------------------------------
(* chatbot/webhook.py: requests in flight.  uvicorn.run serves the           *)
(* application in one process with one event loop (chat_bot_run.py:75);      *)
(* whatsapp_webhook is a coroutine, and the coroutine of another request can *)
(* run only while this one is suspended in an await.  A request goes through *)
(* the statements "form" (webhook.py:53-60, up to await request.form()),     *)
(* "read" (64-107), "invoke" (109-116), "store" (117-118), "send" (120-178). *)

MaxRequests == 2

\* a coroutine that is suspended in graph.invoke as well
yields_at_invoke(statement) == statement \in {"form", "invoke"}

\* webhook.py:60 is the only await of whatsapp_webhook: the coroutine is
\* suspended after "form" and after no other statement
yields(statement) == statement = "form"

\* graph.invoke (graph.py:77-115) on an idle state when the classification
\* call raises: detect_language, process_input, route_intent, handle_none
invoke_unclassified(state) ==
    {handle_none(process_input(detect_language(state, detected), PyRaise).state, g) :
        detected \in lingua(state.user_input), g \in Replies}

ConcInit ==
    /\ DialogueInit /\ ParseIdle /\ SqlIdle /\ HttpIdle
    /\ requests \in [1..MaxRequests ->
                        [phone : ConcPhones, body : Bodies \ {<<" ">>}, at : {"form"},
                         state : {new_agent_state}, seen : {0}, lost : {FALSE}]]
    /\ loop = 0
    /\ writes = [p \in ConcPhones |-> 0]

\* the coroutine of request r runs its next statement
Step(r) ==
    LET q == requests[r]
        phone == q.phone
        known == IF phone \in DOMAIN conversation_states THEN conversation_states
                 ELSE (phone :> new_agent_state) @@ conversation_states
    IN /\ q.at # "done"
       /\ loop \in {0, r}
       /\ loop' = IF yields(q.at) \/ q.at = "send" THEN 0 ELSE r
       /\ CASE q.at = "form" ->
                 /\ requests' = [requests EXCEPT ![r].at = "read"]
                 /\ UNCHANGED <<conversation_states, users, sent, writes>>
            [] q.at = "read" ->
                 /\ users' = IF converty_phone(phone) \in DOMAIN users THEN users
                             ELSE (converty_phone(phone) :>
                                      [name |-> <<"Ali">>, address |-> <<"unknown">>]) @@ users
                 /\ conversation_states' = known
                 /\ requests' = [requests EXCEPT
                                   ![r].at = "invoke",
                                   ![r].state = [known[phone] EXCEPT !.user_input = strip(q.body)],
                                   ![r].seen = writes[phone]]
                 /\ UNCHANGED <<sent, writes>>
            [] q.at = "invoke" ->
                 /\ \E result \in invoke_unclassified(q.state) :
                       requests' = [requests EXCEPT ![r].at = "store", ![r].state = result]
                 /\ UNCHANGED <<conversation_states, users, sent, writes>>
            [] q.at = "store" ->
                 /\ conversation_states' = store(conversation_states, phone, q.state)
                 /\ writes' = [writes EXCEPT ![phone] = @ + 1]
                 /\ requests' = [requests EXCEPT ![r].at = "send",
                                                 ![r].lost = (writes[phone] # q.seen)]
                 /\ UNCHANGED <<users, sent>>
            [] q.at = "send" ->
                 /\ sent' = Append(sent, [to |-> phone, body |-> q.state.response])
                 /\ requests' = [requests EXCEPT ![r].at = "done"]
                 /\ UNCHANGED <<conversation_states, users, writes>>
       /\ UNCHANGED <<orders, issues, pc, cur, st, turn, nturns, parse_vars, sql_vars, http_vars>>

ConcNext == \E r \in DOMAIN requests : Step(r)

ConcSpec == ConcInit /\ [][ConcNext]_vars

---------------------------------------------------------------------------
(* The generate/execute loop on its own *)

\* the state a question starts with: the product check has run, the caller
\* passes the state as a dict or as the model, and row_count is what an
\* earlier statement of the caller left
SqlInit ==
    /\ DialogueInit /\ ParseIdle /\ HttpIdle /\ ConcIdle
    /\ \E exists \in BOOLEAN, items \in {<<>>, << <<"Lamp">> >>}, rows \in {0, 1} :
          sql_state = [sql_agent_state EXCEPT !.product_exists = exists,
                                              !.corrected_product_items = items,
                                              !.row_count = rows]
    /\ sql_pc = "convert"
    /\ \E kind \in {"dict", "AgentState"} : sql_hist = [sql_idle_hist EXCEPT !.kind = kind]

\* the node that runs after convert_nl_to_sql
after_convert(r) ==
    IF r.exc # "" THEN "raised"
    ELSE IF r.generated THEN "execute"
    ELSE "returned"

\* the node that runs after execute_sql
after_execute(state) == IF state.sql_error THEN "convert" ELSE "returned"

ConvertNlToSql ==
    /\ sql_pc = "convert"
    /\ Len(sql_hist.generations) < MaxGenerations
    /\ \E r \in {convert_nl_to_sql(sql_hist.kind, sql_state, c) : c \in SqlCompletions} :
          /\ sql_state' = r.state
          /\ sql_pc' = after_convert(r)
          /\ sql_hist' = [sql_hist EXCEPT
                             !.generations = IF r.generated THEN Append(@, r.folded) ELSE @,
                             !.entry = sql_state.attempts,
                             !.exit = r.exc]
    /\ UNCHANGED <<dialogue_vars, parse_vars, http_vars, conc_vars>>

ExecuteSql ==
    /\ sql_pc = "execute"
    /\ \E db \in DbOutcomes :
          /\ sql_state' = execute_sql(sql_state, db)
          /\ sql_pc' = after_execute(sql_state')
          /\ sql_hist' = [sql_hist EXCEPT !.executions = Append(@, db)]
    /\ UNCHANGED <<dialogue_vars, parse_vars, http_vars, conc_vars>>

SqlNext == ConvertNlToSql \/ ExecuteSql

SqlSpec == SqlInit /\ [][SqlNext]_vars

---------------------------------------------------------------------------
(* The commerce calls on their own *)

HttpInit == DialogueInit /\ ParseIdle /\ SqlIdle /\ HttpIdle /\ ConcIdle

Event(e, next) ==
    /\ http_call' = [http_call EXCEPT !.events = Append(@, e)]
    /\ http_pc' = next
    /\ UNCHANGED <<http_n, dialogue_vars, parse_vars, sql_vars, conc_vars>>

\* a caller enters one of the three functions
StartCall(fn) ==
    /\ http_pc \in {"idle", "returned", "raised"}
    /\ http_n < MaxCalls
    /\ http_call' = [fn |-> fn, events |-> <<>>]
    /\ http_pc' = "token"
    /\ http_n' = http_n + 1
    /\ UNCHANGED <<dialogue_vars, parse_vars, sql_vars, conc_vars>>

\* converty.py:55, 253, 337
GetAccessToken ==
    /\ http_pc = "token"
    /\ \E t \in TokenOutcomes :
          Event(TokenEvent(t), IF t = "raise" THEN "raised" ELSE "send")

\* converty.py:64-87, 269-289, 361-379 when the response is no 401
SendRequest ==
    /\ http_pc = "send"
    /\ \E r \in Responses :
          Event(SendEvent(r),
                IF r.code = 0 THEN "raised"
                ELSE IF unauthorized(r.code) THEN "refresh"
                ELSE response_outcome(r))

\* converty.py:68-73, 272-279, 364-369
RefreshToken ==
    /\ http_pc = "refresh"
    /\ \E t \in TokenOutcomes :
          Event(TokenEvent(t), IF t = "token" THEN "resend" ELSE "raised")

\* converty.py:71-87, 275-289, 367-379
Resend ==
    /\ http_pc = "resend"
    /\ \E r \in Responses :
          Event(SendEvent(r), IF r.code = 0 THEN "raised" ELSE response_outcome(r))

HttpNext ==
    \/ \E fn \in CommerceCalls : StartCall(fn)
    \/ GetAccessToken
    \/ SendRequest
    \/ RefreshToken
    \/ Resend

HttpSpec == HttpInit /\ [][HttpNext]_vars

---------------------------------------------------------------------------
(* Properties of the address-capture flow (graph.py, handlers.py)           *)

\* C1: in a turn that starts with next_step = await_address the language model
\* is not asked to classify the input, and the node that runs after
\* process_input is handle_address_input, whatever the text and the stored intent.
C1_AwaitAddressBypassesClassification ==
    turn.awaited =>
        /\ ~turn.classified
        /\ (Len(turn.nodes) = 2 => pc = "handle_address_input")
        /\ (Len(turn.nodes) >= 3 => turn.nodes[3] = "handle_address_input")

\* a turn that started awaiting the address, whose text is a greeting, has run
\* handle_address_input
C1_Witness ==
    /\ turn.awaited
    /\ cur.body = <<"Bonjour">>
    /\ Len(turn.nodes) >= 3
    /\ turn.nodes[3] = "handle_address_input"

\* C2: a new_order turn in which handle_new_order resolved two valid items and
\* found no address on file ends with next_step = await_address and with
\* requested_items equal to those two items.
C2_NewOrderEndsAwaiting ==
    (turn.stored /\ turn.asked.ty = "list" /\ Len(turn.asked.elems) = 2) =>
        /\ conversation_states[turn.phone].next_step = AwaitAddress
        /\ conversation_states[turn.phone].requested_items = turn.asked

\* C3: a turn that starts with next_step = await_address, whatever its text,
\* calls new_order from handle_address_input and ends with next_step = None and
\* requested_items empty.
C3_AwaitedTurnOrdersAndResets ==
    (turn.awaited /\ turn.stored) =>
        /\ \E i \in DOMAIN turn.calls : turn.calls[i].node = "handle_address_input"
        /\ conversation_states[turn.phone].next_step = None
        /\ conversation_states[turn.phone].requested_items = PyList(<<>>)

\* C4: every stored conversation state with next_step = await_address has a
\* non-empty list of requested_items.
C4_AwaitingImpliesItems ==
    \A p \in DOMAIN conversation_states :
        conversation_states[p].next_step = AwaitAddress =>
            /\ conversation_states[p].requested_items.ty = "list"
            /\ conversation_states[p].requested_items.elems # <<>>

\* a turn has stored a state that awaits the address
C4_Witness ==
    /\ turn.stored
    /\ conversation_states[turn.phone].next_step = AwaitAddress

\* C5: the order handle_address_input creates has the text of the message of
\* that turn as its delivery address.
C5_OrderAddressIsMessage ==
    \A i \in DOMAIN turn.calls :
        (turn.calls[i].node = "handle_address_input" /\ turn.calls[i].ok) =>
            turn.calls[i].address = strip(cur.body)

\* C6: when handle_new_order has valid items and a usable stored address it
\* calls new_order once, with that address, without asking for an address, and
\* when the order is created the turn ends with next_step = None and
\* requested_items empty.
C6_StoredAddressOrdersOnce ==
    LET mine == SelectSeq(turn.calls, LAMBDA c : c.node = "handle_new_order")
    IN (turn.stored /\ mine # <<>>) =>
          /\ Len(mine) = 1
          /\ has_address(mine[1].address)
          /\ turn.asked = PyNone
          /\ mine[1].ok =>
                /\ conversation_states[turn.phone].next_step = None
                /\ conversation_states[turn.phone].requested_items = PyList(<<>>)

\* C7: after a turn that called new_order, created or not, requested_items is
\* empty in the stored state.
C7_ItemsClearedAfterAttempt ==
    (turn.stored /\ turn.calls # <<>>) =>
        conversation_states[turn.phone].requested_items = PyList(<<>>)

\* C8: when the new_order call of handle_address_input returns an error, the
\* response of the state stored by that turn, and the reply sent, is the
\* localized "an error occurred ... please try again" message.
C8_ErrorReplyOnOrderError ==
    LET end == conversation_states[turn.phone]
        message == PyStr(reply_text("order_error", end.language))
    IN (turn.stored /\ \E i \in DOMAIN turn.calls :
                          turn.calls[i].node = "handle_address_input" /\ ~turn.calls[i].ok) =>
          /\ end.response = message
          /\ turn.outcome = "replied" => sent[Len(sent)].body = message

\* C9: when the workflow ends, the handler that ran has left a non-empty str in
\* response, whatever the language model answered.
C9_HandlersSetResponse ==
    pc = "END" => st.response.ty = "str" /\ st.response.val # <<>>

---------------------------------------------------------------------------
(* Properties of extract_answer (llm.py)                                    *)

\* C10: for the keys Intent, Category and Language extract_answer returns a
\* value of the key's domain, and the key's fallback (none, other, english)
\* for a text that carries no tag at all.
C10_EnumeratedKeysStayInDomain ==
    LET domain == (KeyIntent :> process_valid_intents) @@ (KeyCategory :> valid_category)
                  @@ (KeyLanguage :> valid_languages)
        fallback == (KeyIntent :> "none") @@ (KeyCategory :> "other")
                    @@ (KeyLanguage :> "english")
    IN (p_result # Pending /\ p_key \in DOMAIN domain) =>
          /\ p_result.ty = "str"
          /\ Len(p_result.val) = 1
          /\ p_result.val[1] \in domain[p_key]
          /\ p_response = PyStr(<<"I", " ", "cannot", " ", "help">>) =>
                p_result = Str(fallback[p_key])

\* C11: extract_answer returns, for every response and key, a str or a list
\* (it does not raise and does not return None).
C11_AlwaysStrOrList ==
    p_result # Pending => p_result.ty \in {"str", "list"}

\* C12: the Items value of the completion "**Intent:** new_order / **Items:**
\* a,b / **IssueProduct:** none / **Address:** none", as process_input turns it
\* into a list, is the list of a and b.
C12_ItemsLineYieldsList ==
    (/\ p_result # Pending
     /\ p_key = KeyItems
     /\ p_response = PyStr(classification(<<"new_order">>, <<"a", ",", "b">>, <<"none">>))) =>
        items_list(Str("new_order"), p_result) = << <<"a">>, <<"b">> >>

\* C13: for the keys Products and IssueProduct a value that is none (in any
\* case) gives the empty list, and no element of a list that is returned is
\* empty or blank.
C13_BareNoneIsEmptyList ==
    (p_result # Pending /\ p_key \in {KeyProducts, KeyIssueProduct}) =>
        /\ p_response \in {PyStr(<<p_key, " ", "none">>), PyStr(<<p_key, " ", "None", "\n">>)} =>
              p_result = PyList(<<>>)
        /\ \A i \in DOMAIN p_result.elems : strip(p_result.elems[i]) # <<>>

\* C14: when the text holds a line with the key, and the fenced block is
\* absent, is no JSON, or does not carry the key, the result is the value of
\* the line.
C14_FallsBackToLineTag ==
    LET m == json_match(p_response.val)
        j == json_loads(m.body)
        carried == /\ j.ok
                   /\ j.v.kind = "dict"
                   /\ \/ p_key \in DOMAIN j.v.d
                      \/ p_key = KeyIntent /\ "intent" \in DOMAIN j.v.d
                      \/ p_key = KeyProducts /\ "products" \in DOMAIN j.v.d
    IN (/\ p_result # Pending
        /\ p_response.ty = "str"
        /\ find(p_response.val, {p_key}) # 0
        /\ ~m.found \/ ~carried) =>
           p_result = extract_line(p_response.val, p_key)

\* C15: when handle_new_order has resolved the requested names, there is
\* exactly one result per requested name, and each result is the name of a
\* match or the no-match marker none, whatever the resolver answered and
\* whatever the catalog is.
C15_OneResultPerRequestedName ==
    turn.resolved.ran =>
        /\ Len(turn.resolved.matched) = Len(turn.resolved.names)
        /\ \A i \in DOMAIN turn.resolved.matched :
              turn.resolved.matched[i] \in {<<"none">>, <<"Lamp">>, <<"Press">>, <<"Ghost">>}

\* the names of the list l are names of products of the catalog, letter case
\* aside
InCatalog(l, catalog) ==
    \A i \in DOMAIN l : \E j \in DOMAIN catalog : lower(catalog[j].name) = lower(l[i])

\* C16: every item name that handle_new_order passes to new_order, or stores
\* in requested_items when it asks for the address, is, letter case aside,
\* the name of a product of the catalog that this run of the handler fetched.
C16_OrderedItemsAreCatalogProducts ==
    /\ \A i \in DOMAIN turn.calls :
          turn.calls[i].node = "handle_new_order" =>
              InCatalog(turn.calls[i].items, turn.resolved.catalog)
    /\ turn.asked.ty = "list" => InCatalog(turn.asked.elems, turn.resolved.catalog)

\* the resolver answered LAMP and Ghost, Ghost is no product, and the order
\* was created for LAMP alone
C16_Witness ==
    /\ turn.resolved.matched = << <<"LAMP">>, <<"Ghost">> >>
    /\ \E i \in DOMAIN turn.calls :
          /\ turn.calls[i].node = "handle_new_order"
          /\ turn.calls[i].ok
          /\ turn.calls[i].items = << <<"LAMP">> >>

---------------------------------------------------------------------------
(* Properties of the generate/execute loop (logic/sql.py)                   *)

\* the loop has ended
SqlEnded == sql_pc \in {"returned", "raised"}

\* every LLM call gave a query, it was executed, and the execution raised a
\* database error
EveryExecutionFailed ==
    /\ sql_hist.executions # <<>>
    /\ Len(sql_hist.executions) = Len(sql_hist.generations)
    /\ \A i \in DOMAIN sql_hist.executions : sql_hist.executions[i].raised

\* C17: the loop never makes more than MAX_ATTEMPTS generation calls, and a
\* loop that has ended and in which every execution failed has made exactly
\* MAX_ATTEMPTS of them and has returned the terminal failure.
C17_ExactlyMaxAttemptsGenerations ==
    /\ Len(sql_hist.generations) <= MAX_ATTEMPTS
    /\ (SqlEnded /\ EveryExecutionFailed) =>
          /\ Len(sql_hist.generations) = MAX_ATTEMPTS
          /\ sql_pc = "returned"
          /\ sql_state.sql_error

\* C18: when an execution has raised a database error (one that is not about
\* rows that are not returned) and convert_nl_to_sql has run after it with
\* attempts below MAX_ATTEMPTS, that run has called the LLM again with the
\* error message in its prompt.
C18_DatabaseErrorIsRetried ==
    LET n == Len(sql_hist.executions)
    IN (/\ n > 0
        /\ sql_pc # "convert"
        /\ sql_hist.executions[n].raised
        /\ sql_hist.executions[n].msg = <<"syntax error">>
        /\ sql_hist.entry < MAX_ATTEMPTS) =>
           /\ Len(sql_hist.generations) = n + 1
           /\ sql_hist.generations[n + 1] = PyStr(<<"syntax error">>)

\* C19: a run of convert_nl_to_sql that starts with attempts at MAX_ATTEMPTS
\* returns, with sql_error true, no query, and the message of the last
\* execution error.
C19_TerminalFailureIsReturned ==
    LET n == Len(sql_hist.executions)
    IN (/\ sql_hist.entry >= MAX_ATTEMPTS
        /\ sql_pc \in {"returned", "raised", "execute"}) =>
           /\ sql_pc = "returned"
           /\ sql_state.sql_error
           /\ ~Truthy(sql_state.sql_query)
           /\ n > 0 /\ sql_state.sql_error_message = PyStr(sql_hist.executions[n].msg)

---------------------------------------------------------------------------
(* Properties of the commerce calls (api/converty.py)                       *)

\* the requests the call has sent so far, and the tokens it has asked for
\* after its first request
Sends == SelectSeq(http_call.events, LAMBDA e : e.ev = "send")
HttpEnded == http_pc \in {"returned", "raised"}
Refreshes ==
    LET first == CHOOSE i \in DOMAIN http_call.events : http_call.events[i].ev = "send"
    IN SelectSeq(SubSeq(http_call.events, first + 1, Len(http_call.events)),
                 LAMBDA e : e.ev = "token")

\* a call never sends its request more than twice nor refreshes the token
\* more than once; a second request is sent only after a 401 response and a
\* refresh; a call that ended after a first response other than 401 sent one
\* request and did not refresh; a second 401 ends the call with an error
AtMostOneRetry ==
    /\ Len(Sends) <= 2
    /\ Len(Sends) >= 1 => Len(Refreshes) <= 1
    /\ Len(Sends) = 2 => Sends[1].code = 401 /\ Refreshes = <<TokenEvent("token")>>
    /\ (HttpEnded /\ Len(Sends) >= 1 /\ Sends[1].code # 401) =>
          Len(Sends) = 1 /\ Refreshes = <<>>
    /\ (Len(Sends) = 2 /\ Sends[2].code = 401) => http_pc = "raised"

\* C20, as the code has it: for each of the three commerce calls, a call whose
\* first response is 401 asks for a new token once and, when it gets one,
\* sends the request exactly once more; when the refresh raises or gives an
\* empty token the call ends with an error and sends nothing more.  A second
\* 401 ends the call with an error, and a response other than 401 is never
\* followed by a second request.
C20_OneRefreshCycle ==
    /\ AtMostOneRetry
    /\ (HttpEnded /\ Len(Sends) >= 1 /\ Sends[1].code = 401) =>
          /\ Len(Refreshes) = 1
          /\ IF Refreshes[1].token = "token"
             THEN Len(Sends) = 2
             ELSE Len(Sends) = 1 /\ http_pc = "raised"

\* C20, as it is written: a call whose first response is 401 has, when it
\* ends, refreshed the token and sent the request exactly once more.
C20_AlwaysResentAfter401 ==
    /\ AtMostOneRetry
    /\ (HttpEnded /\ Len(Sends) >= 1 /\ Sends[1].code = 401) =>
          Len(Refreshes) = 1 /\ Len(Sends) = 2

\* create_order got 401, refreshed the token, sent the request again, got 401
\* again and ended with an error
C20_Witness ==
    /\ http_call.fn = "create_order"
    /\ http_pc = "raised"
    /\ Len(Sends) = 2
    /\ Sends[1].code = 401 /\ Sends[2].code = 401

---------------------------------------------------------------------------
(* Properties of the routing and of the turn as a whole                     *)

\* the handler of graph.py:83-95 for an intent that starts no order
OwnHandler ==
    (<<"greeting">> :> "handle_greeting") @@ (<<"list_products">> :> "handle_list_products")
    @@ (<<"retrieve_order">> :> "retrieve_order")
    @@ (<<"report_issue">> :> "handle_report_issue") @@ (<<"none">> :> "handle_none")

\* C23: in a turn that does not start with next_step = await_address, an
\* intent among greeting, list_products, retrieve_order, report_issue and none
\* is routed to its own handler and to no other, the turn makes no new_order
\* call and creates no order, and it does not end with next_step =
\* await_address; an intent outside the known ones is routed to handle_none.
C23_IdleIntentsRunOwnHandler ==
    /\ \A other \in {Str("address"), Str("update_address"), Str("chitchat"), PyNone} :
          route_intent([new_agent_state EXCEPT !.intent = other]) = "handle_none"
    /\ (/\ ~turn.awaited
        /\ Len(turn.nodes) >= 3
        /\ st.intent.ty = "str"
        /\ st.intent.val \in DOMAIN OwnHandler) =>
           /\ turn.nodes[3] = OwnHandler[st.intent.val]
           /\ Len(turn.nodes) = 3
           /\ turn.calls = <<>>
           /\ st.next_step # AwaitAddress
           /\ turn.stored => conversation_states[turn.phone].next_step # AwaitAddress

\* a retrieve_order turn that ran its handler and was stored
C23_Witness ==
    /\ ~turn.awaited
    /\ turn.stored
    /\ st.intent = Str("retrieve_order")
    /\ turn.nodes = <<"detect_language", "process_input", "retrieve_order">>

\* the turn ran handle_new_order and nothing it was asked for is a product of
\* the catalog: no requested items, no matched name, or no matched name that
\* the catalog has
NothingToOrder ==
    /\ Len(turn.nodes) >= 3
    /\ turn.nodes[3] = "handle_new_order"
    /\ \/ ~turn.resolved.ran
       \/ \A i \in DOMAIN turn.resolved.matched :
             ~InCatalog(<<turn.resolved.matched[i]>>, turn.resolved.catalog)

\* some matched name is a name and not the marker none
SomeNameMatched ==
    \E i \in DOMAIN turn.resolved.matched : turn.resolved.matched[i] # <<"none">>

\* the turn made no new_order call, asked for no address and left next_step alone
NothingOrdered ==
    /\ turn.nodes = <<"detect_language", "process_input", "handle_new_order">>
    /\ turn.calls = <<>>
    /\ turn.asked = PyNone
    /\ st.next_step # AwaitAddress
    /\ turn.stored => conversation_states[turn.phone].next_step # AwaitAddress

AsksToNameProducts ==
    st.response \in {PyStr(reply_text(id, st.language)) :
                        id \in {"specify_products", "no_items", "not_found"}}

C25_IntentIsKnownAfterProcessInput ==
    Len(turn.nodes) >= 2 =>
        st.intent \in {Str("new_order"), Str("retrieve_order"), Str("list_products"),
                       Str("greeting"), Str("report_issue"), Str("none")}

\* the language model classified the message as an address, an intent that
\* extract_answer lets through, and process_input made it none
C25_Witness ==
    /\ Len(turn.nodes) >= 2
    /\ turn.classified
    /\ st.address = Str("Main")
    /\ st.intent = Str("none")

\* C28: once detect_language has run in a turn, and in every stored
\* conversation state, language is one of english, french and arabic, whatever
\* the text and whatever the detector answers, also when it raises.
C28_LanguageIsKnown ==
    /\ Len(turn.nodes) >= 1 => st.language \in {"english", "french", "arabic"}
    /\ \A phone \in DOMAIN conversation_states :
          conversation_states[phone].language \in {"english", "french", "arabic"}

\* a stored turn whose message is a French greeting, and one whose text the
\* detector took for Arabic
C28_Witness ==
    /\ turn.stored
    /\ conversation_states[turn.phone].language \in {"french", "arabic"}
    /\ conversation_states[turn.phone].language = st.language

\* the webhook has returned or raised for the message of this turn
TurnEnded == pc = "idle" /\ turn.outcome # "none"

\* C27: every message the webhook has finished with, also one for which the
\* user-store query, the workflow or the sending raised, was answered by a
\* reply sent to its counterparty.
C27_EveryMessageIsAnswered ==
    TurnEnded =>
        /\ turn.outcome \in {"replied", "error_replied"}
        /\ sent # <<>>
        /\ sent[Len(sent)].to = turn.phone

C30_CreatedOrderEndsTheFlow ==
    (turn.stored /\ \E i \in DOMAIN turn.calls : turn.calls[i].ok) =>
        /\ conversation_states[turn.phone].next_step = None
        /\ conversation_states[turn.phone].requested_items = PyList(<<>>)

\* handle_address_input is about to run on a non-blank message with no
\* requested_items (None or the empty list)
AddressWithoutItems ==
    /\ pc = "handle_address_input"
    /\ strip(st.user_input) # <<>>
    /\ st.requested_items \in {PyNone, PyList(<<>>)}

\* C26: handle_address_input, entered with a non-empty message and no
\* requested_items, calls neither update_address nor new_order (the user table
\* and the orders stay as they are), answers with the localized error reply
\* and sets next_step to None.
C26_NoItemsIsAnError ==
    [][AddressWithoutItems =>
          /\ users' = users
          /\ orders' = orders
          /\ turn'.calls = <<>>
          /\ st'.response = PyStr(reply_text("no_products_selected", st.language))
          /\ st'.next_step = None
          /\ pc' = "END"]_vars

\* such a turn was stored: the message is an address, the list was empty
C26_Witness ==
    /\ turn.nodes = <<"detect_language", "process_input", "handle_address_input">>
    /\ turn.stored
    /\ cur.body = <<"12", " ", "Main", " ", "Street">>
    /\ st.requested_items = PyList(<<>>)
    /\ st.response = PyStr(reply_text("no_products_selected", st.language))
    /\ conversation_states[cur.phone].next_step = None

---------------------------------------------------------------------------
(* Properties of the requests in flight (chatbot/webhook.py)                *)

\* request r has read the entry of its counterparty and not yet written it back
InTurn(r) == requests[r].at \in {"invoke", "store"}

\* C21: two requests of one counterparty are never both between the read of
\* conversation_states[phone] and its write-back; while a request is there
\* the entry is not written by another one, and no request has written over
\* an entry that was stored after it had read it.
C21_TurnsDoNotInterleave ==
    /\ \A r1, r2 \in DOMAIN requests :
          (r1 # r2 /\ requests[r1].phone = requests[r2].phone) =>
              ~(InTurn(r1) /\ InTurn(r2))
    /\ \A r \in DOMAIN requests :
          /\ InTurn(r) => writes[requests[r].phone] = requests[r].seen
          /\ ~requests[r].lost

\* two requests of one counterparty have both been processed, the second
\* having arrived (awaiting its form data) before the first was stored
C21_Witness ==
    \E r1, r2 \in DOMAIN requests :
        /\ r1 # r2
        /\ requests[r1].phone = requests[r2].phone
        /\ requests[r1].at = "done"
        /\ requests[r2].at = "done"
        /\ requests[r2].seen = 1
        /\ writes[requests[r1].phone] = 2

\* C22: a step of the request of counterparty A leaves the stored
\* conversation state of every other counterparty as it is, present or absent.
C22_OtherCounterpartiesUnchanged ==
    [][\A r \in DOMAIN requests :
          requests'[r] # requests[r] =>
              \A B \in ConcPhones \ {requests[r].phone} :
                  /\ (B \in DOMAIN conversation_states') = (B \in DOMAIN conversation_states)
                  /\ B \in DOMAIN conversation_states =>
                        conversation_states'[B] = conversation_states[B]]_vars

\* the requests of two counterparties have been processed and each entry holds
\* the state of its own message
C22_Witness ==
    /\ DOMAIN conversation_states = ConcPhones
    /\ \A r \in DOMAIN requests :
          /\ requests[r].at = "done"
          /\ conversation_states[requests[r].phone] = requests[r].state
    /\ \E r1, r2 \in DOMAIN requests : requests[r1].state # requests[r2].state

---------------------------------------------------------------------------
(* Properties of the handlers that only reply                               *)

\* the fallback texts of the three handlers in a language
FallbackReplies(language) ==
    {PyStr(reply_text(id, language)) :
        id \in {"greeting", "clarify", "product_list", "no_products_available"}}

---------------------------------------------------------------------------
(* Properties of handle_report_issue                                        *)

\* no product was named: None, nothing, or the marker none as the classifier
\* gives it, as a str or as the one element of the extracted list
IssueProductMissing(v) ==
    ~Truthy(v) \/ v = Str("none") \/ v = PyList(<< <<"none">> >>)

\* C32: every claim a step of handle_report_issue saves has a product that
\* is, letter case aside, an item of the orders fetched in that step and a
\* type among the eight claim categories, and the step saves no claim when
\* the issue product of the state is missing.
C32_SavedClaimsAreMatched ==
    [][(pc = "handle_report_issue") =>
          /\ \A i \in (DOMAIN issues') \ (DOMAIN issues) :
                /\ issues'[i].type \in {<<c>> : c \in valid_category}
                /\ \E j \in DOMAIN orders : \E k \in DOMAIN orders[j].items :
                      lower(orders[j].items[k]) = lower(issues'[i].product)
          /\ IssueProductMissing(st.issue_product) => issues' = issues]_vars

---------------------------------------------------------------------------
(* Properties of the attempts counter (logic/sql.py)                        *)

\* convert_nl_to_sql has called the LLM and has returned its state
Generated == sql_pc = "convert" /\ sql_pc' = "execute"

\* the last execution failed with an error other than the one about a
\* statement that returns no rows
RetryableError ==
    /\ sql_state.sql_error
    /\ find(lower(sql_state.sql_error_message.val), {"does not return rows"}) = 0

\* C33: attempts stays within 0..MAX_ATTEMPTS; a generation with no prior
\* error leaves it at 0, a generation after a retryable error adds exactly 1
\* to it, and a call that finds it at MAX_ATTEMPTS makes no generation.
C33_AttemptsStaysInRange ==
    [][/\ sql_state.attempts \in 0..MAX_ATTEMPTS
       /\ sql_state'.attempts \in 0..MAX_ATTEMPTS
       /\ (Generated /\ ~sql_state.sql_error) =>
             (sql_state.attempts = 0 /\ sql_state'.attempts = 0)
       /\ (Generated /\ RetryableError) => sql_state'.attempts = sql_state.attempts + 1
       /\ (sql_pc = "convert" /\ sql_state.attempts >= MAX_ATTEMPTS) =>
             sql_hist'.generations = sql_hist.generations]_vars

\* the counter has reached MAX_ATTEMPTS after four generations, and the call
\* that found it there has ended without a fifth
C33_Witness ==
    /\ sql_state.attempts = MAX_ATTEMPTS
    /\ sql_hist.entry = MAX_ATTEMPTS
    /\ Len(sql_hist.generations) = MAX_ATTEMPTS + 1
    /\ SqlEnded

\* the product check did not match every requested product
NoMatchedProducts ==
    ~sql_state.product_exists \/ sql_state.corrected_product_items = <<>>

\* C37: when product_exists is false or corrected_product_items is empty, no
\* generation call is made and nothing is executed against the database, and
\* once convert_nl_to_sql has run the loop has not raised: the state has no
\* query and carries the error 'No SQL query provided' of execute_sql.
C37_NoQueryWithoutMatchedProducts ==
    NoMatchedProducts =>
        /\ sql_hist.generations = <<>>
        /\ sql_hist.executions = <<>>
        /\ sql_pc # "raised"
        /\ SqlEnded =>
              /\ ~Truthy(sql_state.sql_query)
              /\ sql_state.sql_error
              /\ sql_state.sql_error_message = PyStr(<<"No SQL query provided">>)

---------------------------------------------------------------------------
(* The stored state of a turn whose graph run raised                        *)

\* the entry of a counterparty, or nothing
Entry(states, phone) == IF phone \in DOMAIN states THEN <<states[phone]>> ELSE <<>>

\* graph.invoke raised in the turn: nodes ran and the result was never stored
GraphRunRaised == turn.nodes # <<>> /\ ~turn.stored /\ pc \in {"raised", "idle"}

\* C35: when the graph run of a turn raises, the entry of the counterparty in
\* conversation_states is the one it had before the turn; for a counterparty
\* that had no entry it is the default state created at the start of the turn.
C35_RaisedRunKeepsStoredState ==
    GraphRunRaised =>
        Entry(conversation_states, turn.phone) =
            IF Entry(turn.before, turn.phone) = <<>> THEN <<new_agent_state>>
            ELSE Entry(turn.before, turn.phone)

\* C35 as stated: after a graph run that raised, conversation_states[phone] is
\* exactly what it was before the turn.
C35_RaisedRunLeavesEntryAsBefore ==
    GraphRunRaised =>
        Entry(conversation_states, turn.phone) = Entry(turn.before, turn.phone)

\* the run of a later turn raised and the entry holds the reply of the turn before
C35_Witness ==
    /\ GraphRunRaised
    /\ pc = "idle"
    /\ Entry(turn.before, turn.phone) # <<>>
    /\ turn.before[turn.phone].response.ty = "str"
    /\ turn.before[turn.phone].response.val # <<>>
    /\ st # turn.before[turn.phone]

---------------------------------------------------------------------------
(* chatbot/graph.py: one run of the compiled graph.  graph.invoke is started *)
(* (webhook.py:115) from the state of a counterparty that is idle or is      *)
(* asked for an address, against a store that holds pending orders of this   *)
(* and of another counterparty; the run is followed to the end of the        *)
(* request.  graph.invoke runs the next node until it reaches END or a node  *)
(* raises, and the webhook goes on to its reply: the fairness of RunSpec.    *)

\* the pending orders the store holds when the run starts
StoreOrders ==
    LET mine == new_order_record(converty_phone(PhoneTN), << <<"Lamp">> >>, PyNone)
        theirs == new_order_record(<<"20000002">>, << <<"Press">> >>, PyNone)
    IN {<<>>, <<mine>>, <<mine, theirs>>, <<theirs>>}

RunInit ==
    /\ ParseIdle /\ SqlIdle /\ HttpIdle /\ ConcIdle
    /\ \E awaiting \in BOOLEAN, body \in Bodies :
          LET stored == IF awaiting
                        THEN [new_agent_state EXCEPT
                                 !.next_step = AwaitAddress,
                                 !.requested_items = PyList(<< <<"Lamp">> >>)]
                        ELSE new_agent_state
          IN /\ conversation_states = (PhoneTN :> stored)
             /\ cur = [phone |-> PhoneTN, name |-> <<"Ali">>, body |-> body]
             /\ st = [stored EXCEPT !.user_input = strip(body)]
             /\ turn = [idle_turn EXCEPT !.phone = PhoneTN, !.awaited = awaiting,
                                         !.outcome = "running",
                                         !.before = (PhoneTN :> stored)]
    /\ users = (converty_phone(PhoneTN) :> [name |-> <<"Ali">>, address |-> <<"unknown">>])
    /\ orders \in StoreOrders
    /\ issues = <<>>
    /\ pc = "detect_language"
    /\ sent = <<>>
    /\ nturns = 1

\* graph.py:77-115, the nodes of the workflow, and webhook.py:116-176
RunNext ==
    \/ DetectLanguage
    \/ ProcessInput
    \/ HandleListProducts
    \/ HandleNone
    \/ HandleGreeting
    \/ HandleNewOrder
    \/ HandleAddressInput
    \/ RetrieveOrder
    \/ HandleReportIssue
    \/ WebhookReply
    \/ WebhookExcept

RunSpec == RunInit /\ [][RunNext]_vars /\ WF_vars(RunNext)

---------------------------------------------------------------------------
(* The shape of a graph run                                                  *)

IntentHandlers ==
    {"handle_list_products", "handle_none", "handle_greeting", "handle_new_order",
     "handle_address_input", "retrieve_order", "handle_report_issue"}

\* the nodes of the run so far are the start of a path of the workflow on which
\* no node occurs twice
OnePassOfTheWorkflow ==
    LET n == turn.nodes
    IN /\ Len(n) <= 4
       /\ \A i, j \in 1..Len(n) : n[i] = n[j] => i = j
       /\ Len(n) >= 1 => n[1] = "detect_language"
       /\ Len(n) >= 2 => n[2] = "process_input"
       /\ Len(n) >= 3 => n[3] \in IntentHandlers
       /\ Len(n) = 4 => n[3] = "handle_new_order" /\ n[4] = "handle_address_input"
       /\ pc = "END" => Len(n) >= 3
       /\ pc \in {"detect_language", "process_input"} \cup IntentHandlers =>
             \A i \in 1..Len(n) : n[i] # pc

\* C36: a graph run executes detect_language, then process_input, then exactly
\* one intent handler, then handle_address_input at most once and only after
\* handle_new_order, no node twice; and every run that is started reaches END
\* or ends with the exception of a node.
C36_RunIsOnePassAndEnds ==
    /\ []OnePassOfTheWorkflow
    /\ (pc = "detect_language") ~> (pc \in {"END", "raised"})

\* a run that went through handle_new_order and handle_address_input to END
C36_Witness ==
    /\ pc = "END"
    /\ turn.nodes = <<"detect_language", "process_input", "handle_new_order",
                      "handle_address_input">>

---------------------------------------------------------------------------
(* The orders a counterparty is shown                                        *)

\* the orders of one customer among those of the store
OrdersOf(platform, user_id) == SelectSeq(platform, LAMBDA o : o.phone = user_id)

\* C34: the order list retrieve_order obtained for the counterparty of the run
\* is the list a run obtains against any store that holds the same orders of
\* this counterparty, whatever the orders of the other counterparties are; and
\* a claim handle_report_issue saved in the run names an item of an order of
\* this counterparty.
C34_OrderListDependsOnOwnOrders ==
    LET user_id == user_id_converty(cur.phone)
        mine == OrdersOf(orders, user_id)
    IN /\ (/\ turn.nodes = <<"detect_language", "process_input", "retrieve_order">>
           /\ st.order_data.ty = "list"
           /\ st.order_data.found # <<>>) =>
              \A other \in StoreOrders :
                 OrdersOf(other, user_id) = mine =>
                    get_orders(other, TRUE) = st.order_data.found
       /\ (/\ turn.nodes = <<"detect_language", "process_input", "handle_report_issue">>
           /\ issues # <<>>) =>
              \E i \in 1..Len(mine), k \in 1..2 :
                 /\ k <= Len(mine[i].items)
                 /\ lower(mine[i].items[k]) = lower(issues[Len(issues)].product)

---------------------------------------------------------------------------
(* process_input while an address is awaited                                 *)

\* C38: when the state has next_step = await_address, process_input sets
\* user_input to the trimmed input, intent to "none" and address to the text
\* of the message, and leaves every other field of the state as it was, among
\* them requested_items, next_step, language, issue_product and order_data.
C38_AwaitedInputOnlySetsAddress ==
    [][(pc = "process_input" /\ st.next_step = AwaitAddress) =>
          /\ st'.user_input = strip(st.user_input)
          /\ st'.intent = Str("none")
          /\ st'.address = PyStr(strip(cur.body))
          /\ \A f \in DOMAIN st \ {"user_input", "intent", "address"} : st'[f] = st[f]
          /\ st'.requested_items = st.requested_items
          /\ st'.next_step = st.next_step
          /\ st'.language = st.language
          /\ st'.issue_product = st.issue_product
          /\ st'.order_data = st.order_data]_vars

\* process_input took the message as the address of an order that names items
C38_Witness ==
    /\ turn.awaited
    /\ turn.nodes = <<"detect_language", "process_input">>
    /\ st.next_step = AwaitAddress
    /\ st.intent = Str("none")
    /\ st.address = PyStr(<<"12", " ", "Main", " ", "Street">>)
    /\ st.requested_items.ty = "list"
    /\ st.requested_items.elems # <<>>
    /\ ~turn.classified

====
